---- MODULE Spec2Model ----
(***************************************************************************)
(* A model of influxsnmp's point sender (influx.go) and of the per-target  *)
(* statistics a poller keeps (main.go, gather).                            *)
(*                                                                         *)
(* The sender: NewSender checks the configuration, then starts one flush   *)
(* loop that selects over the flush-interval ticker, the point queue and   *)
(* the package-wide flush channel, and writes the current batch until the  *)
(* write succeeds.  Submit constructs a point and sends it on the queue.   *)
(*                                                                         *)
(* The start-up: main builds the senders, looks up each agent's sender and *)
(* starts one gather goroutine per profile and criteria; gather checks its *)
(* frequency, registers its stats accessor with addStats and polls.  The   *)
(* web server's status page reads the registry with getStats.              *)
(*                                                                         *)
(* The polling loop of the earlier snmp.go: Gather connects, then polls,   *)
(* reconnects after a failed poll, and waits for the ticker or a debug     *)
(* toggle before the next poll.  snmpStats makes one poll cycle in chunks  *)
(* of at most maxOids and counts requests, chunk reads and errors in       *)
(* package-level counters.                                                 *)
(*                                                                         *)
(* Two closer views: the poll cycle and the status page at the level of    *)
(* the registry lock and the per-gather mutex, and the flush channel       *)
(* shared by the flush loops of several Senders.                           *)
(***************************************************************************)
EXTENDS Integers, Sequences, FiniteSets

\* ------------------------------------------------------------- bounds
MaxPoints == 3      \* Submit calls made in one behaviour
MaxBatch  == 2      \* largest batchSize handed to NewSender
MaxQueue  == 2      \* largest queueSize handed to NewSender
MaxFails  == 2      \* failed store writes in one behaviour
MaxFlush  == 1      \* SenderFlush calls in one behaviour
MaxCalls  == 3      \* errFn calls in one behaviour
MaxReads  == 2      \* snapshot-accessor calls in one behaviour
MaxPollers == 2     \* gather goroutines a configuration starts
MaxCrit   == 2      \* names in one mib section (criteria per agent)
MaxPolls  == 1      \* poll cycles of all pollers in one behaviour
MaxSnaps  == 1      \* getStats calls in one behaviour
MaxCount  == 2      \* largest count handed to Gather
MaxDebug  == 2      \* sends on cDebug in one behaviour
MaxQueries == 2     \* protocol queries of all pollers in one behaviour
MaxCycles == 2      \* snmpStats calls of all loops in one behaviour

Producers == {1, 2}
PointIds  == 1..MaxPoints
Writers   == {1, 2}     \* threads calling errFn
Readers   == {3}        \* threads calling the snapshot accessor

VARIABLES
    spc,        \* NewSender: "init", "running", "failed" (error returned), "panic"
    batchSize,  \* NewSender's batchSize parameter
    queueSize,  \* NewSender's queueSize parameter: capacity of pts
    period,     \* NewSender's period parameter (seconds)
    probe,      \* what NewSender's checks find: [hasDB, connOK, dbExists, bpOK]
    pts,        \* the buffer of the pts channel
    bp,         \* the points of the current batch, bp.Points()
    count,      \* the flush loop's point counter
    lpc,        \* the flush loop: "select", "write", "sleep"
    tick,       \* a tick waits in the ticker's channel (buffer of one)
    written,    \* the batches conn.Write has accepted, in order
    att,        \* the conn.Write calls of the flush the loop did last: [b, after]
    errs,       \* the "influxdb write error" reports of that flush
    last,       \* what the flush loop did last
    fails,      \* failed writes so far (bounded by MaxFails)
    sub,        \* each producer's Submit call: [pc, pt]
    nsub,       \* points constructed so far (ids handed out)
    accepted,   \* ids of the points whose Submit returned nil
    rejected,   \* Submit calls that returned NewPoint's error
    entered,    \* the points in the order they went into the pts channel
    fpc,        \* SenderFlush: "idle", or "send" (blocked at `flush <- struct{}{}`)
    nflush,     \* SenderFlush calls so far
    \* ---- gather's stats, its mutex m, errFn and the snapshot accessor
    stats,      \* the snmpStats value: [GetCnt, ErrCnt, LastError, LastTime]
    m,          \* the sync.Mutex: 0 when free, else the thread holding it
    wpc,        \* each errFn caller's position
    warg,       \* each errFn caller's err argument (0 is nil)
    wtmp,       \* each errFn caller's register during a ++
    rpc,        \* each accessor caller's position
    scopy,      \* each accessor caller's local s
    ret,        \* the snapshot each accessor caller got last
    hist,       \* the values stats had between whole errFn calls
    pre,        \* each errFn caller: the value stats had when it took m
    now,        \* the clock time.Now() reads
    ncall,      \* errFn calls so far
    nread,      \* accessor calls so far
    \* ---- main, gather, the stats registry and getStats
    proc,       \* the process: "up", "exit" (main returned), or how it ended
                \*              otherwise: "fatal: ...", "exit: ...", "panic: ..."
    conf,       \* the configuration read by init(): [senders, agents, http]
    mpc,        \* init and main: "load", "agentList", "mode", "dump", "sample",
                \*                "senders", "agents", "spawn", "wait"
    made,       \* getSenders: the names whose sender is in the map s
    senderErr,  \* a makeSender call has returned an error
    ai,         \* main: the index of the agent its loop is at
    cur,        \* main: the gather calls still to start for that agent
    gs,         \* the gather goroutines started, in order
    sLock,      \* the registry's mutex: 0 free, g held by gather g, -1 by getStats
    statsMap,   \* the registry: key |-> the gather whose accessor it holds
    regLog,     \* the addStats calls done, in order: [key, g]
    hpc,        \* getStats caller: "off" (no web server), "idle", "lock", "iter",
                \*                  "copy" (inside an accessor fn)
    snap,       \* getStats: the map m of the call in progress
    todo,       \* getStats: the keys its range has not yielded yet
    lockKeys,   \* the keys registered when that call took the lock
    vk,         \* getStats: the key whose accessor fn() it is in (<<>>: none)
    nsnap,      \* getStats calls so far
    npoll,      \* poll cycles so far
    quit,       \* the counter of the wait group quit
    \* ---- SnmpConfig.Gather
    gpc,        \* Gather: "init", "connect", "poll", "reconnect", "sleep", "wait",
                \*         "done" (past wg.Done), "returned", "fatal"
    gcount,     \* Gather's count
    count0,     \* the count Gather was called with
    gerr,       \* the last snmpStats call returned an error
    polled,     \* snmpStats has been called
    cycles,     \* snmpStats calls made by Gather (counted up to MaxCount + 1)
    signals,    \* wg.Done() calls made by Gather
    reconn,     \* client is not the first client any more (a reconnect was tried)
    clientConn, \* client.Conn: "none", "open", "closed"
    clientLogger, \* client.Logger is not nil
    snmpDebug,  \* the package's debug flag
    cTick,      \* a tick waits in the channel c (buffer of one)
    dpc,        \* the sender on cDebug: "idle", or "send" (blocked at the send)
    dval,       \* the value it sends
    ndebug,     \* sends on cDebug so far
    \* ---- snmpStats and its package-level counters
    snmpReqs,   \* the counter of poll cycles begun
    snmpGets,   \* the counter of requests answered
    errorSNMP,  \* the counter of failed poll cycles
    qs,         \* each polling loop's snmpStats call and its SnmpConfig
    qclock,     \* the clock time.Now() reads in snmpStats
    ncycle,     \* snmpStats calls so far
    \* ---- the flush channel and the flush loops of several Senders
    fl,         \* each Sender's flush loop: "none" (no such Sender), "select",
                \*                           "write", "sleep"
    flushed,    \* the loops that received from flush, in order
    \* ---- the producers' points
    owner       \* the producer that constructed each point, by id

cfgVars  == <<spc, batchSize, queueSize, period, probe>>
loopVars == <<bp, count, lpc, written, att, errs, last, fails>>
subVars  == <<sub, nsub, accepted, rejected, entered>>
flVars   == <<fpc, nflush>>
senderVars == <<cfgVars, pts, tick, loopVars, subVars, flVars>>
statVars == <<stats, m, wpc, warg, wtmp, rpc, scopy, ret, hist, pre, now, ncall, nread>>
mainVars == <<proc, conf, mpc, made, senderErr, ai, cur, gs, sLock, statsMap, regLog,
              hpc, snap, todo, lockKeys, vk, nsnap, npoll, quit>>
pollVars == <<gpc, gcount, count0, gerr, polled, cycles, signals, reconn, clientConn, clientLogger, snmpDebug,
              cTick, dpc, dval, ndebug>>
snmpVars == <<snmpReqs, snmpGets, errorSNMP, qs, qclock, ncycle>>
flushVars == <<fl, flushed>>
orderVars == <<owner>>
otherVars == <<snmpVars, flushVars, orderVars>>
vars     == <<senderVars, statVars, mainVars, pollVars, otherVars>>

\* ------------------------------------------------------------- helpers
RECURSIVE Flatten(_)
Flatten(ss) == IF ss = <<>> THEN <<>> ELSE Head(ss) \o Flatten(Tail(ss))

Range(s) == {s[i] : i \in DOMAIN s}

Occurs(p, s) == Cardinality({i \in DOMAIN s : s[i] = p})

\* the values the sender runs with: the capacity of make(chan, queueSize),
\* the bound of `count < batchSize`, the seconds of time.Tick(delay)
Capacity  == queueSize
Threshold == batchSize
Delay     == period

\* the ticker of time.Tick(delay): nil (never fires) when delay <= 0
TickerExists == Delay > 0

\* (mutant) the buffer takes one point more than its capacity
CanBufferOneMore == Len(pts) <= Capacity

\* `pts <- pt` can complete into the buffer
CanBuffer == Len(pts) < Capacity

\* the points the store has accepted
Delivered == {Flatten(written)[i] : i \in DOMAIN Flatten(written)}

\* ------------------------------------------------------------- NewSender
SenderInit ==
    /\ spc = "init"
    /\ batchSize = 0 /\ queueSize = 0 /\ period = 0
    /\ probe = [hasDB |-> TRUE, connOK |-> TRUE, dbExists |-> TRUE, bpOK |-> TRUE]
    /\ pts = <<>> /\ bp = <<>> /\ count = 0
    /\ lpc = "select" /\ tick = FALSE
    /\ written = <<>> /\ att = <<>> /\ errs = 0
    /\ last = "none" /\ fails = 0
    /\ sub = [p \in Producers |-> [pc |-> "idle", pt |-> 0]]
    /\ nsub = 0 /\ accepted = {} /\ rejected = 0
    /\ entered = <<>>
    /\ fpc = "idle" /\ nflush = 0

\* (mutant) NewSender without the test that the store lists the database
NewSenderNoExistsCheck(q, hasDB, connOK, dbExists, bpOK) ==
    IF ~hasDB THEN "failed"
    ELSE IF q < 0 THEN "panic"
    ELSE IF ~connOK THEN "failed"
    ELSE IF ~bpOK THEN "failed"
    ELSE "running"

\* the outcome of NewSender(b, q, per), in the order of its checks: a
\* configuration without a database name, make(chan, q) with a negative q,
\* a store that does not answer the ping, a store that does not list the
\* database, a batch configuration NewBatchPoints refuses
NewSenderResult(q, hasDB, connOK, dbExists, bpOK) ==
    IF ~hasDB THEN "failed"
    ELSE IF q < 0 THEN "panic"
    ELSE IF ~connOK THEN "failed"
    ELSE IF ~dbExists THEN "failed"
    ELSE IF ~bpOK THEN "failed"
    ELSE "running"

NewSender ==
    /\ spc = "init"
    /\ \E b \in 0..MaxBatch, q \in -1..MaxQueue, per \in 0..1,
          hasDB \in BOOLEAN, connOK \in BOOLEAN, dbExists \in BOOLEAN,
          bpOK \in BOOLEAN :
          /\ spc' = NewSenderResult(q, hasDB, connOK, dbExists, bpOK)
          /\ batchSize' = b /\ queueSize' = q /\ period' = per
          /\ probe' = [hasDB |-> hasDB, connOK |-> connOK,
                       dbExists |-> dbExists, bpOK |-> bpOK]
    /\ UNCHANGED <<statVars, mainVars, pollVars, otherVars, pts, tick, loopVars, subVars, flVars>>

\* ------------------------------------------------------------- Submit
\* (mutant) a point NewPoint refused is sent on the queue all the same
SubmitInvalidEnqueues(p) ==
    /\ spc = "running" /\ sub[p].pc = "idle"
    /\ nsub + rejected < MaxPoints
    /\ CanBuffer
    /\ rejected' = rejected + 1
    /\ nsub' = nsub + 1
    /\ pts' = Append(pts, nsub + 1)
    /\ UNCHANGED <<statVars, mainVars, pollVars, otherVars, cfgVars, tick, loopVars, sub, accepted, entered, flVars>>

\* client.NewPoint fails: Submit returns the error
SubmitInvalid(p) ==
    /\ spc = "running" /\ sub[p].pc = "idle"
    /\ nsub + rejected < MaxPoints
    /\ rejected' = rejected + 1
    /\ UNCHANGED <<statVars, mainVars, pollVars, otherVars, cfgVars, pts, tick, loopVars, sub, nsub, accepted,
                   entered, flVars>>

\* client.NewPoint succeeds and `pts <- pt` finds room: Submit returns nil
SubmitNowStep(p) ==
    /\ spc = "running" /\ sub[p].pc = "idle"
    /\ nsub + rejected < MaxPoints
    /\ CanBuffer
    /\ nsub' = nsub + 1
    /\ pts' = Append(pts, nsub + 1)
    /\ accepted' = accepted \cup {nsub + 1}
    /\ entered' = Append(entered, nsub + 1)
    /\ UNCHANGED <<statVars, mainVars, pollVars, cfgVars, tick, loopVars, sub, rejected, flVars>>

\* that step, its producer not recorded
SubmitNow(p) == SubmitNowStep(p) /\ UNCHANGED otherVars

\* that step, its producer recorded as the owner of the point
OwnedSubmitNow(p) ==
    /\ SubmitNowStep(p)
    /\ owner' = Append(owner, p)
    /\ UNCHANGED <<snmpVars, flushVars>>

\* (mutant) a full queue makes Submit give the point up and return an error
SubmitFullReturnsError(p) ==
    /\ spc = "running" /\ sub[p].pc = "idle"
    /\ nsub + rejected < MaxPoints
    /\ ~CanBuffer
    /\ nsub' = nsub + 1
    /\ rejected' = rejected + 1
    /\ UNCHANGED <<statVars, mainVars, pollVars, otherVars, cfgVars, pts, tick, loopVars, sub, accepted, entered, flVars>>

\* client.NewPoint succeeds and `pts <- pt` finds no room: the caller blocks
SubmitBlockStep(p) ==
    /\ spc = "running" /\ sub[p].pc = "idle"
    /\ nsub + rejected < MaxPoints
    /\ ~CanBuffer
    /\ nsub' = nsub + 1
    /\ sub' = [sub EXCEPT ![p] = [pc |-> "send", pt |-> nsub + 1]]
    /\ UNCHANGED <<statVars, mainVars, pollVars, cfgVars, pts, tick, loopVars, accepted, rejected, entered, flVars>>

\* that step, its producer recorded as the owner of the point
OwnedSubmitBlock(p) ==
    /\ SubmitBlockStep(p)
    /\ owner' = Append(owner, p)
    /\ UNCHANGED <<snmpVars, flushVars>>

\* (mutant) a queue without room takes the point all the same
SubmitBlockGrowsQueue(p) ==
    /\ spc = "running" /\ sub[p].pc = "idle"
    /\ nsub + rejected < MaxPoints
    /\ ~CanBuffer
    /\ nsub' = nsub + 1
    /\ pts' = Append(pts, nsub + 1)
    /\ accepted' = accepted \cup {nsub + 1}
    /\ entered' = Append(entered, nsub + 1)
    /\ UNCHANGED <<statVars, mainVars, pollVars, otherVars, cfgVars, tick, loopVars, sub, rejected, flVars>>

\* that step, its producer not recorded
SubmitBlock(p) == SubmitBlockStep(p) /\ UNCHANGED otherVars

\* a blocked `pts <- pt` completes into the buffer and Submit returns nil
SubmitUnblock(p) ==
    /\ sub[p].pc = "send"
    /\ CanBuffer
    /\ pts' = Append(pts, sub[p].pt)
    /\ accepted' = accepted \cup {sub[p].pt}
    /\ entered' = Append(entered, sub[p].pt)
    /\ sub' = [sub EXCEPT ![p] = [pc |-> "idle", pt |-> 0]]
    /\ UNCHANGED <<statVars, mainVars, pollVars, otherVars, cfgVars, tick, loopVars, nsub, rejected, flVars>>

\* ------------------------------------------------------------- the ticker
TimerFire ==
    /\ spc = "running" /\ TickerExists
    /\ ~tick
    /\ tick' = TRUE
    /\ UNCHANGED <<statVars, mainVars, pollVars, otherVars, cfgVars, pts, loopVars, subVars, flVars>>

\* ------------------------------------------------------------- SenderFlush
\* the caller blocks at `flush <- struct{}{}` until a loop receives; the
\* one-second sleep that follows changes nothing
FlushCall ==
    /\ fpc = "idle" /\ nflush < MaxFlush
    /\ fpc' = "send" /\ nflush' = nflush + 1
    /\ UNCHANGED <<statVars, mainVars, pollVars, otherVars, cfgVars, pts, tick, loopVars, subVars>>

\* ------------------------------------------------------------- the flush loop
\* the loop leaves the select for the write loop
StartWrite(by) ==
    /\ lpc' = "write" /\ last' = by
    /\ att' = <<>> /\ errs' = 0

\* (mutant) case <-tick without the test for an empty batch
LoopTickNoCheck ==
    /\ spc = "running" /\ lpc = "select" /\ tick
    /\ tick' = FALSE
    /\ StartWrite("tick")
    /\ UNCHANGED <<statVars, mainVars, pollVars, otherVars, cfgVars, pts, bp, count, written, fails, subVars, flVars>>

\* case <-tick
LoopTick ==
    /\ spc = "running" /\ lpc = "select" /\ tick
    /\ tick' = FALSE
    /\ IF Len(bp) = 0
         THEN /\ last' = "idle-tick"
              /\ UNCHANGED <<lpc, att, errs>>
         ELSE StartWrite("tick")
    /\ UNCHANGED <<statVars, mainVars, pollVars, otherVars, cfgVars, pts, bp, count, written, fails, subVars, flVars>>

\* (mutant) every received point starts a write
AddPointNoThreshold(pt) ==
    /\ bp' = Append(bp, pt)
    /\ count' = count + 1
    /\ StartWrite("full")

\* (mutant) the write starts one point late: count <= batchSize continues
AddPointOffByOne(pt) ==
    /\ bp' = Append(bp, pt)
    /\ count' = count + 1
    /\ IF count + 1 <= Threshold
         THEN /\ last' = "append"
              /\ att' = <<>> /\ errs' = 0
              /\ UNCHANGED lpc
         ELSE StartWrite("full")

\* what the loop does with a received point
AddPoint(pt) ==
    /\ bp' = Append(bp, pt)
    /\ count' = count + 1
    /\ IF count + 1 < Threshold
         THEN /\ last' = "append"
              /\ att' = <<>> /\ errs' = 0
              /\ UNCHANGED lpc
         ELSE StartWrite("full")

\* (mutant) the loop takes points from the queue wherever it is
LoopPointWhileWriting ==
    /\ spc = "running" /\ Len(pts) > 0
    /\ pts' = Tail(pts)
    /\ AddPoint(Head(pts))
    /\ UNCHANGED <<statVars, mainVars, pollVars, otherVars, cfgVars, tick, written, fails, subVars, flVars>>

\* (mutant) the queue hands out the point that entered last
LoopPointTakesLast ==
    /\ spc = "running" /\ lpc = "select" /\ Len(pts) > 0
    /\ pts' = SubSeq(pts, 1, Len(pts) - 1)
    /\ AddPoint(pts[Len(pts)])
    /\ UNCHANGED <<statVars, mainVars, pollVars, otherVars, cfgVars, tick, written, fails, subVars, flVars>>

\* case p := <-pts, from the buffer
LoopPoint ==
    /\ spc = "running" /\ lpc = "select" /\ Len(pts) > 0
    /\ pts' = Tail(pts)
    /\ AddPoint(Head(pts))
    /\ UNCHANGED <<statVars, mainVars, pollVars, otherVars, cfgVars, tick, written, fails, subVars, flVars>>

\* case p := <-pts, from a sender blocked on an unbuffered queue
LoopPointDirect(p) ==
    /\ spc = "running" /\ lpc = "select"
    /\ Capacity = 0 /\ sub[p].pc = "send"
    /\ AddPoint(sub[p].pt)
    /\ accepted' = accepted \cup {sub[p].pt}
    /\ entered' = Append(entered, sub[p].pt)
    /\ sub' = [sub EXCEPT ![p] = [pc |-> "idle", pt |-> 0]]
    /\ UNCHANGED <<statVars, mainVars, pollVars, otherVars, cfgVars, pts, tick, written, fails, nsub, rejected, flVars>>

\* (mutant) a flush signal with an empty batch starts no write
LoopFlushSkipsEmpty ==
    /\ spc = "running" /\ lpc = "select" /\ fpc = "send"
    /\ fpc' = "idle"
    /\ IF Len(bp) = 0
         THEN /\ last' = "idle-flush"
              /\ UNCHANGED <<lpc, att, errs>>
         ELSE StartWrite("flush")
    /\ UNCHANGED <<statVars, mainVars, pollVars, otherVars, cfgVars, pts, tick, bp, count, written, fails, subVars, nflush>>

\* case <-flush
LoopFlush ==
    /\ spc = "running" /\ lpc = "select" /\ fpc = "send"
    /\ fpc' = "idle"
    /\ StartWrite("flush")
    /\ UNCHANGED <<statVars, mainVars, pollVars, otherVars, cfgVars, pts, tick, bp, count, written, fails, subVars, nflush>>

\* (mutant) a failed write gives the batch up
WriteFailDropsBatch ==
    /\ lpc = "write" /\ fails < MaxFails
    /\ att' = Append(att, [b |-> bp, after |-> last])
    /\ errs' = errs + 1
    /\ fails' = fails + 1
    /\ last' = "fail"
    /\ bp' = <<>> /\ count' = 0
    /\ lpc' = "select"
    /\ UNCHANGED <<statVars, mainVars, pollVars, otherVars, cfgVars, pts, tick, written, subVars, flVars>>

\* (mutant) a failed write ends the flush loop
WriteFailEndsLoop ==
    /\ lpc = "write" /\ fails < MaxFails
    /\ att' = Append(att, [b |-> bp, after |-> last])
    /\ errs' = errs + 1
    /\ fails' = fails + 1
    /\ last' = "fail"
    /\ lpc' = "exit"
    /\ UNCHANGED <<statVars, mainVars, pollVars, otherVars, cfgVars, pts, tick, bp, count, written, subVars, flVars>>

\* conn.Write(bp) returns an error: report it, then sleep
WriteFail ==
    /\ lpc = "write" /\ fails < MaxFails
    /\ att' = Append(att, [b |-> bp, after |-> last])
    /\ errs' = errs + 1
    /\ fails' = fails + 1
    /\ last' = "fail"
    /\ lpc' = "sleep"
    /\ UNCHANGED <<statVars, mainVars, pollVars, otherVars, cfgVars, pts, tick, bp, count, written, subVars, flVars>>

\* time.Sleep(30 * time.Second) ends: continue with the same bp
CoolDown ==
    /\ lpc = "sleep"
    /\ last' = "cool"
    /\ lpc' = "write"
    /\ UNCHANGED <<statVars, mainVars, pollVars, otherVars, cfgVars, pts, tick, bp, count, written, att, errs, fails,
                   subVars, flVars>>

\* (mutant) a successful write leaves the counter as it is
WriteOKKeepsCount ==
    /\ lpc = "write"
    /\ att' = Append(att, [b |-> bp, after |-> last])
    /\ written' = Append(written, bp)
    /\ bp' = <<>>
    /\ lpc' = "select"
    /\ last' = "ok"
    /\ UNCHANGED <<statVars, mainVars, pollVars, otherVars, cfgVars, pts, tick, count, errs, fails, subVars, flVars>>

\* (mutant) a successful write resets the counter and keeps the batch
WriteOKKeepsBatch ==
    /\ lpc = "write"
    /\ att' = Append(att, [b |-> bp, after |-> last])
    /\ written' = Append(written, bp)
    /\ count' = 0
    /\ lpc' = "select"
    /\ last' = "ok"
    /\ UNCHANGED <<statVars, mainVars, pollVars, otherVars, cfgVars, pts, tick, bp, errs, fails, subVars, flVars>>

\* conn.Write(bp) succeeds: a new batch, count = 0, back to the select
WriteOK ==
    /\ lpc = "write"
    /\ att' = Append(att, [b |-> bp, after |-> last])
    /\ written' = Append(written, bp)
    /\ bp' = <<>>
    /\ count' = 0
    /\ lpc' = "select"
    /\ last' = "ok"
    /\ UNCHANGED <<statVars, mainVars, pollVars, otherVars, cfgVars, pts, tick, errs, fails, subVars, flVars>>

\* ------------------------------------------------------------- gather: stats
ZeroStats == [GetCnt |-> 0, ErrCnt |-> 0, LastError |-> 0, LastTime |-> 0]

StatsInit ==
    /\ stats = ZeroStats
    /\ m = 0
    /\ wpc = [w \in Writers |-> "idle"]
    /\ warg = [w \in Writers |-> 0]
    /\ wtmp = [w \in Writers |-> 0]
    /\ rpc = [r \in Readers |-> "idle"]
    /\ scopy = [r \in Readers |-> ZeroStats]
    /\ ret = [r \in Readers |-> ZeroStats]
    /\ hist = {ZeroStats}
    /\ pre = [w \in Writers |-> ZeroStats]
    /\ now = 1
    /\ ncall = 0 /\ nread = 0

\* (mutant) m.Lock() never waits
MutexNeverBlocks == TRUE

\* m.Lock() goes through when no thread holds m
MutexFree == m = 0

\* errFn(err) is called: err is nil (0) or the error of this call
ErrFnCall(w) ==
    /\ wpc[w] = "idle" /\ ncall < MaxCalls
    /\ \E isErr \in BOOLEAN :
          warg' = [warg EXCEPT ![w] = IF isErr THEN ncall + 1 ELSE 0]
    /\ ncall' = ncall + 1
    /\ wpc' = [wpc EXCEPT ![w] = "lock"]
    /\ UNCHANGED <<senderVars, mainVars, pollVars, otherVars, pre, stats, m, wtmp, rpc, scopy, ret, hist, now, nread>>

\* m.Lock()
ErrFnLock(w) ==
    /\ wpc[w] = "lock" /\ MutexFree
    /\ m' = w
    /\ pre' = [pre EXCEPT ![w] = stats]
    /\ wpc' = [wpc EXCEPT ![w] = "load"]
    /\ UNCHANGED <<senderVars, mainVars, pollVars, otherVars, stats, warg, wtmp, rpc, scopy, ret, hist, now, ncall, nread>>

\* stats.GetCnt++ or stats.ErrCnt++: read the counter
ErrFnLoad(w) ==
    /\ wpc[w] = "load"
    /\ wtmp' = [wtmp EXCEPT ![w] = IF warg[w] = 0 THEN stats.GetCnt ELSE stats.ErrCnt]
    /\ wpc' = [wpc EXCEPT ![w] = "store"]
    /\ UNCHANGED <<senderVars, mainVars, pollVars, otherVars, pre, stats, m, warg, rpc, scopy, ret, hist, now, ncall, nread>>

\* (mutant) an error is counted as a get as well
ErrFnStoreCountsGet(w) ==
    /\ wpc[w] = "store"
    /\ IF warg[w] = 0
         THEN /\ stats' = [stats EXCEPT !.GetCnt = wtmp[w] + 1]
              /\ wpc' = [wpc EXCEPT ![w] = "unlock"]
         ELSE /\ stats' = [stats EXCEPT !.ErrCnt = wtmp[w] + 1, !.GetCnt = @ + 1]
              /\ wpc' = [wpc EXCEPT ![w] = "lasterror"]
    /\ UNCHANGED <<senderVars, mainVars, pollVars, otherVars, pre, m, warg, wtmp, rpc, scopy, ret, hist, now, ncall, nread>>

\* stats.GetCnt++ or stats.ErrCnt++: write the counter back
ErrFnStore(w) ==
    /\ wpc[w] = "store"
    /\ IF warg[w] = 0
         THEN /\ stats' = [stats EXCEPT !.GetCnt = wtmp[w] + 1]
              /\ wpc' = [wpc EXCEPT ![w] = "unlock"]
         ELSE /\ stats' = [stats EXCEPT !.ErrCnt = wtmp[w] + 1]
              /\ wpc' = [wpc EXCEPT ![w] = "lasterror"]
    /\ UNCHANGED <<senderVars, mainVars, pollVars, otherVars, pre, m, warg, wtmp, rpc, scopy, ret, hist, now, ncall, nread>>

\* stats.LastError = err
ErrFnLastError(w) ==
    /\ wpc[w] = "lasterror"
    /\ stats' = [stats EXCEPT !.LastError = warg[w]]
    /\ wpc' = [wpc EXCEPT ![w] = "lasttime"]
    /\ UNCHANGED <<senderVars, mainVars, pollVars, otherVars, pre, m, warg, wtmp, rpc, scopy, ret, hist, now, ncall, nread>>

\* stats.LastTime = time.Now()
ErrFnLastTime(w) ==
    /\ wpc[w] = "lasttime"
    /\ stats' = [stats EXCEPT !.LastTime = now]
    /\ now' = now + 1
    /\ wpc' = [wpc EXCEPT ![w] = "unlock"]
    /\ UNCHANGED <<senderVars, mainVars, pollVars, otherVars, pre, m, warg, wtmp, rpc, scopy, ret, hist, ncall, nread>>

\* m.Unlock(): errFn returns
ErrFnUnlock(w) ==
    /\ wpc[w] = "unlock"
    /\ m' = 0
    /\ hist' = hist \cup {stats}
    /\ wpc' = [wpc EXCEPT ![w] = "idle"]
    /\ UNCHANGED <<senderVars, mainVars, pollVars, otherVars, pre, stats, warg, wtmp, rpc, scopy, ret, now, ncall, nread>>

\* the accessor registered with addStats is called
SnapCall(r) ==
    /\ rpc[r] = "idle" /\ nread < MaxReads
    /\ nread' = nread + 1
    /\ rpc' = [rpc EXCEPT ![r] = "lock"]
    /\ UNCHANGED <<senderVars, mainVars, pollVars, otherVars, pre, stats, m, wpc, warg, wtmp, scopy, ret, hist, now, ncall>>

\* m.Lock()
SnapLock(r) ==
    /\ rpc[r] = "lock" /\ MutexFree
    /\ m' = r
    /\ rpc' = [rpc EXCEPT ![r] = "GetCnt"]
    /\ UNCHANGED <<senderVars, mainVars, pollVars, otherVars, pre, stats, wpc, warg, wtmp, scopy, ret, hist, now, ncall, nread>>

\* s := stats copies one field after the other
NextField(f) ==
    CASE f = "GetCnt" -> "ErrCnt"
      [] f = "ErrCnt" -> "LastError"
      [] f = "LastError" -> "LastTime"
      [] f = "LastTime" -> "unlock"

SnapCopy(r) ==
    /\ rpc[r] \in {"GetCnt", "ErrCnt", "LastError", "LastTime"}
    /\ scopy' = [scopy EXCEPT ![r][rpc[r]] = stats[rpc[r]]]
    /\ rpc' = [rpc EXCEPT ![r] = NextField(rpc[r])]
    /\ UNCHANGED <<senderVars, mainVars, pollVars, otherVars, pre, stats, m, wpc, warg, wtmp, ret, hist, now, ncall, nread>>

\* m.Unlock(); return s
SnapReturn(r) ==
    /\ rpc[r] = "unlock"
    /\ m' = 0
    /\ ret' = [ret EXCEPT ![r] = scopy[r]]
    /\ rpc' = [rpc EXCEPT ![r] = "idle"]
    /\ UNCHANGED <<senderVars, mainVars, pollVars, otherVars, pre, stats, wpc, warg, wtmp, scopy, hist, now, ncall, nread>>

StatsNext ==
    \/ \E w \in Writers : ErrFnCall(w)
    \/ \E w \in Writers : ErrFnLock(w)
    \/ \E w \in Writers : ErrFnLoad(w)
    \/ \E w \in Writers : ErrFnStore(w)
    \/ \E w \in Writers : ErrFnLastError(w)
    \/ \E w \in Writers : ErrFnLastTime(w)
    \/ \E w \in Writers : ErrFnUnlock(w)
    \/ \E r \in Readers : SnapCall(r)
    \/ \E r \in Readers : SnapLock(r)
    \/ \E r \in Readers : SnapCopy(r)
    \/ \E r \in Readers : SnapReturn(r)

\* ------------------------------------------------------------- main: start-up
SenderNames == {"*", "a"}       \* the names of the influx sections
AgentNames  == {"a", "b"}       \* the names of the snmp sections
H1 == <<"h1">>
H2 == <<"h2">>
HostLists == {<<H1>>, <<H1, H2>>}   \* strings.Fields(c.Host)

\* one entry of agentList(): an snmp section with one of its mib sections
Agents == [name : AgentNames, hosts : HostLists, freq : 0..1, ncrit : 1..MaxCrit]

\* agentList(): the sections in the order the map yields them; a section
\* that lists two mibs gives two entries with its name, hosts and frequency
AgentLists ==
    {<<>>} \cup {<<a>> : a \in Agents}
           \cup {l \in Agents \X Agents :
                    \/ l[1].name # l[2].name
                    \/ l[1].hosts = l[2].hosts /\ l[1].freq = l[2].freq}

\* the gather calls main makes for agent a: for each profile, each criteria
GatherCalls(a, send) ==
    [i \in 1..(Len(a.hosts) * a.ncrit) |->
        [host |-> a.hosts[((i - 1) \div a.ncrit) + 1],
         oid  |-> ((i - 1) % a.ncrit) + 1,
         send |-> send]]

RECURSIVE TotalCalls(_)
TotalCalls(ag) ==
    IF ag = <<>> THEN 0
    ELSE Len(Head(ag).hosts) * Head(ag).ncrit + TotalCalls(Tail(ag))

MainInit ==
    /\ proc = "up" /\ mpc = "load"
    /\ conf = [senders |-> [n \in SenderNames |-> "none"], agents |-> <<>>, http |-> FALSE]
    /\ made = {} /\ senderErr = FALSE
    /\ ai = 1 /\ cur = <<>> /\ gs = <<>>
    /\ sLock = 0 /\ statsMap = <<>> /\ regLog = <<>>
    /\ hpc = "off" /\ snap = <<>> /\ todo = {}
    /\ lockKeys = {} /\ vk = <<>>
    /\ nsnap = 0 /\ npoll = 0
    /\ quit = 0

\* ------------------------------------------------------------- Gather
GatherInit ==
    /\ gpc = "init" /\ gcount = 0 /\ count0 = 0
    /\ gerr = FALSE /\ polled = FALSE
    /\ cycles = 0 /\ signals = 0 /\ reconn = FALSE
    /\ clientConn = "none" /\ clientLogger = FALSE
    /\ snmpDebug = FALSE /\ cTick = FALSE
    /\ dpc = "idle" /\ dval = FALSE /\ ndebug = 0

\* the ticker of time.Tick(time.Duration(freq) * time.Second) fires
TickerRuns == TRUE

\* snmpClient: client.Logger = s.DebugLog() if snmpDebug; DebugLog returns
\* nil when it cannot open its file
NewClientLogger == IF snmpDebug THEN BOOLEAN ELSE {FALSE}

\* one more snmpStats call; the count stops at MaxCount + 1
CountCycle(n) == IF n <= MaxCount THEN n + 1 ELSE n

\* Gather(count, wg) is called
GatherCall ==
    /\ gpc = "init"
    /\ \E n \in 0..MaxCount : gcount' = n /\ count0' = n
    /\ gpc' = "connect"
    /\ UNCHANGED <<senderVars, statVars, mainVars, otherVars, gerr, polled, cycles, signals, reconn, clientConn, clientLogger,
                   snmpDebug, cTick, dpc, dval, ndebug>>

\* client, err := snmpClient(s); fatal(err) if it fails
GatherConnect ==
    /\ gpc = "connect"
    /\ \E ok \in BOOLEAN, l \in NewClientLogger :
          /\ clientLogger' = l
          /\ IF ok THEN gpc' = "poll" /\ clientConn' = "open"
                   ELSE gpc' = "fatal" /\ clientConn' = "none"
    /\ UNCHANGED <<senderVars, statVars, mainVars, otherVars, gcount, count0, gerr, polled, cycles, signals, reconn, snmpDebug,
                   cTick, dpc, dval, ndebug>>

\* (mutant) a poll error ends the loop
GatherPollStopsOnError ==
    /\ gpc = "poll"
    /\ polled' = TRUE
    /\ cycles' = CountCycle(cycles)
    /\ \E failed \in BOOLEAN :
          /\ gerr' = failed
          /\ IF failed \/ gcount = 1
               THEN /\ gcount' = IF gcount > 0 THEN gcount - 1 ELSE gcount
                    /\ gpc' = "done" /\ UNCHANGED clientConn
                    /\ signals' = signals + 1
               ELSE /\ gcount' = IF gcount > 0 THEN gcount - 1 ELSE gcount
                    /\ gpc' = "wait" /\ UNCHANGED <<clientConn, signals>>
    /\ UNCHANGED <<senderVars, statVars, mainVars, otherVars, count0, reconn, clientLogger, snmpDebug,
                   cTick, dpc, dval, ndebug>>

\* (mutant) the loop is left one cycle early: count-- and break at count <= 1
GatherPollLeavesEarly ==
    /\ gpc = "poll"
    /\ polled' = TRUE
    /\ cycles' = CountCycle(cycles)
    /\ \E failed \in BOOLEAN :
          /\ gerr' = failed
          /\ IF gcount \in {1, 2}
               THEN /\ gcount' = gcount - 1
                    /\ gpc' = "done" /\ UNCHANGED clientConn
                    /\ signals' = signals + 1
               ELSE /\ gcount' = IF gcount > 0 THEN gcount - 1 ELSE gcount
                    /\ UNCHANGED signals
                    /\ IF failed
                         THEN gpc' = "reconnect" /\ clientConn' = "closed"
                         ELSE gpc' = "wait" /\ UNCHANGED clientConn
    /\ UNCHANGED <<senderVars, statVars, mainVars, otherVars, count0, reconn, clientLogger, snmpDebug,
                   cTick, dpc, dval, ndebug>>

\* one turn of the loop up to the pause: err := snmpStats(client, s); the
\* count is taken down and on the last counted cycle the loop is left and
\* wg.Done() called; after an error on another cycle the client's
\* connection is closed
GatherPoll ==
    /\ gpc = "poll"
    /\ polled' = TRUE
    /\ cycles' = CountCycle(cycles)
    /\ \E failed \in BOOLEAN :
          /\ gerr' = failed
          /\ IF gcount = 1
               THEN /\ gcount' = 0
                    /\ gpc' = "done" /\ UNCHANGED clientConn
                    /\ signals' = signals + 1
               ELSE /\ gcount' = IF gcount > 0 THEN gcount - 1 ELSE gcount
                    /\ UNCHANGED signals
                    /\ IF failed
                         THEN gpc' = "reconnect" /\ clientConn' = "closed"
                         ELSE gpc' = "wait" /\ UNCHANGED clientConn
    /\ UNCHANGED <<senderVars, statVars, mainVars, otherVars, count0, reconn, clientLogger, snmpDebug,
                   cTick, dpc, dval, ndebug>>

\* client, err = snmpClient(s) succeeds: client is a new client; break
ReconnectOK ==
    /\ gpc = "reconnect"
    /\ reconn' = TRUE
    /\ \E l \in NewClientLogger : clientLogger' = l
    /\ clientConn' = "open"
    /\ gpc' = "wait"
    /\ UNCHANGED <<senderVars, statVars, mainVars, otherVars, gcount, count0, gerr, polled, cycles, signals, snmpDebug,
                   cTick, dpc, dval, ndebug>>

\* client, err = snmpClient(s) fails (client is a new client all the same):
\* errLog, then time.Sleep(Timeout)
ReconnectFail ==
    /\ gpc = "reconnect"
    /\ reconn' = TRUE
    /\ \E l \in NewClientLogger : clientLogger' = l
    /\ clientConn' = "none"
    /\ gpc' = "sleep"
    /\ UNCHANGED <<senderVars, statVars, mainVars, otherVars, gcount, count0, gerr, polled, cycles, signals, snmpDebug,
                   cTick, dpc, dval, ndebug>>

\* the sleep ends: the next attempt to connect
ReconnectSleep ==
    /\ gpc = "sleep"
    /\ gpc' = "reconnect"
    /\ UNCHANGED <<senderVars, statVars, mainVars, otherVars, gcount, count0, gerr, polled, cycles, signals, reconn, clientConn,
                   clientLogger, snmpDebug, cTick, dpc, dval, ndebug>>

\* the ticker c, made after the first connect, puts a tick in its channel
GatherTimerFire ==
    /\ gpc \in {"poll", "reconnect", "sleep", "wait"}
    /\ TickerRuns /\ ~cTick
    /\ cTick' = TRUE
    /\ UNCHANGED <<senderVars, statVars, mainVars, otherVars, gpc, gcount, count0, gerr, polled, cycles, signals, reconn,
                   clientConn, clientLogger, snmpDebug, dpc, dval, ndebug>>

\* case <-c: break LOOP
WaitTick ==
    /\ gpc = "wait" /\ cTick
    /\ cTick' = FALSE
    /\ gpc' = "poll"
    /\ UNCHANGED <<senderVars, statVars, mainVars, otherVars, gcount, count0, gerr, polled, cycles, signals, reconn, clientConn,
                   clientLogger, snmpDebug, dpc, dval, ndebug>>

\* somebody sends a value on cDebug and waits for a receiver
DebugSend ==
    /\ dpc = "idle" /\ ndebug < MaxDebug
    /\ \E v \in BOOLEAN : dval' = v
    /\ dpc' = "send"
    /\ ndebug' = ndebug + 1
    /\ UNCHANGED <<senderVars, statVars, mainVars, otherVars, gpc, gcount, count0, gerr, polled, cycles, signals, reconn,
                   clientConn, clientLogger, snmpDebug, cTick>>

\* case snmpDebug = <-cDebug: the logger is set or cleared; the loop stays
\* in its pause
WaitDebug ==
    /\ gpc = "wait" /\ dpc = "send"
    /\ snmpDebug' = dval
    /\ IF dval /\ ~clientLogger
         THEN \E l \in BOOLEAN : clientLogger' = l
         ELSE clientLogger' = FALSE
    /\ dpc' = "idle"
    /\ UNCHANGED <<senderVars, statVars, mainVars, otherVars, gpc, gcount, count0, gerr, polled, cycles, signals, reconn,
                   clientConn, cTick, dval, ndebug>>

\* Gather returns: the deferred client.Conn.Close() closes the connection
\* of the first client, which is the current one only if no reconnect was
\* made
GatherReturn ==
    /\ gpc = "done"
    /\ gpc' = "returned"
    /\ clientConn' = IF reconn THEN clientConn ELSE "closed"
    /\ UNCHANGED <<senderVars, statVars, mainVars, otherVars, gcount, count0, gerr, polled, cycles,
                   signals, reconn, clientLogger, snmpDebug, cTick, dpc, dval, ndebug>>

GatherNext ==
    \/ GatherCall
    \/ GatherConnect
    \/ GatherPoll
    \/ ReconnectOK
    \/ ReconnectFail
    \/ ReconnectSleep
    \/ GatherTimerFire
    \/ WaitTick
    \/ DebugSend
    \/ WaitDebug
    \/ GatherReturn

\* ------------------------------------------------------------- snmpStats
maxOids   == 60                 \* const in gosnmp
Loops     == {1, 2}             \* the polling loops, one SnmpConfig each
OidCounts == {0, 60, 61, 121}   \* len(cfg.oids)

SnmpInit ==
    /\ snmpReqs = 0 /\ snmpGets = 0 /\ errorSNMP = 0
    /\ qclock = 1 /\ ncycle = 0
    /\ qs = [l \in Loops |->
               [pc |-> "idle", n |-> 0, i |-> 0, tmp |-> 0, series |-> <<>>,
                now |-> 0, LastError |-> 0, sent |-> <<>>, res |-> "none",
                cycles |-> 0, failed |-> 0, incs |-> 0]]

\* end := i + maxOids; if end > len(cfg.oids) { end = len(cfg.oids) }
ChunkEnd(i, n) == IF i + maxOids > n THEN n ELSE i + maxOids

\* snmpStats(client, cfg) is called by loop l
SnmpStatsCall(l) ==
    /\ qs[l].pc = "idle" /\ ncycle < MaxCycles
    /\ \E n \in OidCounts :
          qs' = [qs EXCEPT ![l].pc = "reqload", ![l].n = n, ![l].cycles = @ + 1]
    /\ ncycle' = ncycle + 1
    /\ UNCHANGED <<senderVars, statVars, mainVars, pollVars, flushVars, orderVars, snmpReqs, snmpGets, errorSNMP,
                   qclock>>

\* snmpReqs++: read the counter
ReqLoad(l) ==
    /\ qs[l].pc = "reqload"
    /\ qs' = [qs EXCEPT ![l].tmp = snmpReqs, ![l].pc = "reqstore"]
    /\ UNCHANGED <<senderVars, statVars, mainVars, pollVars, flushVars, orderVars, snmpReqs, snmpGets, errorSNMP,
                   qclock, ncycle>>

\* snmpReqs++: write it back; now := time.Now(); series := InfluxSeries{...}
ReqStore(l) ==
    /\ qs[l].pc = "reqstore"
    /\ snmpReqs' = qs[l].tmp + 1
    /\ qs' = [qs EXCEPT ![l].now = qclock, ![l].series = <<>>, ![l].i = 0,
                        ![l].pc = "loop"]
    /\ qclock' = qclock + 1
    /\ UNCHANGED <<senderVars, statVars, mainVars, pollVars, flushVars, orderVars, snmpGets, errorSNMP, ncycle>>

\* client.Get(cfg.oids[i:end]) returns a packet
GetOK(l) ==
    /\ qs[l].pc = "loop" /\ qs[l].i < qs[l].n
    /\ qs' = [qs EXCEPT ![l].pc = "getload"]
    /\ UNCHANGED <<senderVars, statVars, mainVars, pollVars, flushVars, orderVars, snmpReqs, snmpGets, errorSNMP,
                   qclock, ncycle>>

\* client.Get(cfg.oids[i:end]) returns an error: errLog
GetFail(l) ==
    /\ qs[l].pc = "loop" /\ qs[l].i < qs[l].n
    /\ qs' = [qs EXCEPT ![l].pc = "errload"]
    /\ UNCHANGED <<senderVars, statVars, mainVars, pollVars, flushVars, orderVars, snmpReqs, snmpGets, errorSNMP,
                   qclock, ncycle>>

\* snmpGets++: read the counter
GetsLoad(l) ==
    /\ qs[l].pc = "getload"
    /\ qs' = [qs EXCEPT ![l].tmp = snmpGets, ![l].pc = "getstore"]
    /\ UNCHANGED <<senderVars, statVars, mainVars, pollVars, flushVars, orderVars, snmpReqs, snmpGets, errorSNMP,
                   qclock, ncycle>>

\* snmpGets++: write it back; the packet's variables go to the series;
\* i += maxOids
GetsStore(l) ==
    /\ qs[l].pc = "getstore"
    /\ snmpGets' = qs[l].tmp + 1
    /\ qs' = [qs EXCEPT ![l].series = Append(@, <<qs[l].i, ChunkEnd(qs[l].i, qs[l].n)>>),
                        ![l].i = @ + maxOids,
                        ![l].pc = "loop"]
    /\ UNCHANGED <<senderVars, statVars, mainVars, pollVars, flushVars, orderVars, snmpReqs, errorSNMP, qclock,
                   ncycle>>

\* errorSNMP++: read the counter
ErrLoad(l) ==
    /\ qs[l].pc = "errload"
    /\ qs' = [qs EXCEPT ![l].tmp = errorSNMP, ![l].pc = "errstore"]
    /\ UNCHANGED <<senderVars, statVars, mainVars, pollVars, flushVars, orderVars, snmpReqs, snmpGets, errorSNMP,
                   qclock, ncycle>>

\* (mutant) the cycle that failed sends what it has collected
ErrStoreSendsPartial(l) ==
    /\ qs[l].pc = "errstore"
    /\ errorSNMP' = qs[l].tmp + 1
    /\ qs' = [qs EXCEPT ![l].incs = @ + 1, ![l].LastError = qs[l].now,
                        ![l].sent = Append(@, [n |-> qs[l].n, data |-> qs[l].series]),
                        ![l].failed = @ + 1, ![l].res = "err", ![l].pc = "idle"]
    /\ UNCHANGED <<senderVars, statVars, mainVars, pollVars, flushVars, orderVars, snmpReqs, snmpGets, qclock,
                   ncycle>>

\* errorSNMP++: write it back; cfg.LastError = now; return err
ErrStore(l) ==
    /\ qs[l].pc = "errstore"
    /\ errorSNMP' = qs[l].tmp + 1
    /\ qs' = [qs EXCEPT ![l].incs = @ + 1, ![l].LastError = qs[l].now,
                        ![l].failed = @ + 1, ![l].res = "err", ![l].pc = "idle"]
    /\ UNCHANGED <<senderVars, statVars, mainVars, pollVars, flushVars, orderVars, snmpReqs, snmpGets, qclock,
                   ncycle>>

\* after the last chunk: cfg.Influx.Send(series); return nil
SnmpSend(l) ==
    /\ qs[l].pc = "loop" /\ qs[l].i >= qs[l].n
    /\ qs' = [qs EXCEPT ![l].sent = Append(@, [n |-> qs[l].n, data |-> qs[l].series]),
                        ![l].res = "ok", ![l].pc = "idle"]
    /\ UNCHANGED <<senderVars, statVars, mainVars, pollVars, flushVars, orderVars, snmpReqs, snmpGets, errorSNMP,
                   qclock, ncycle>>

SnmpNext ==
    \/ \E l \in Loops : SnmpStatsCall(l)
    \/ \E l \in Loops : ReqLoad(l)
    \/ \E l \in Loops : ReqStore(l)
    \/ \E l \in Loops : GetOK(l)
    \/ \E l \in Loops : GetFail(l)
    \/ \E l \in Loops : GetsLoad(l)
    \/ \E l \in Loops : GetsStore(l)
    \/ \E l \in Loops : ErrLoad(l)
    \/ \E l \in Loops : ErrStore(l)
    \/ \E l \in Loops : SnmpSend(l)

\* ------------------------------------------------------------- flush
Senders == {1, 2, 3}        \* the Senders NewSender can make

FlushInit ==
    /\ fl = [i \in Senders |-> "none"]
    /\ flushed = <<>>

\* NewSender returns a Sender: its goroutine is at the select
FlushNewSender(i) ==
    /\ fl[i] = "none"
    /\ fl' = [fl EXCEPT ![i] = "select"]
    /\ UNCHANGED <<senderVars, statVars, mainVars, pollVars, snmpVars, orderVars, flushed>>

\* (mutant) the signal stays in the channel for the next loop
FlushReceiveKeepsSignal(i) ==
    /\ fl[i] = "select" /\ fpc = "send"
    /\ Len(flushed) <= MaxFlush
    /\ fl' = [fl EXCEPT ![i] = "write"]
    /\ flushed' = Append(flushed, i)
    /\ UNCHANGED <<senderVars, statVars, mainVars, pollVars, snmpVars, orderVars>>

\* case <-flush in loop i meets SenderFlush's `flush <- struct{}{}`
FlushReceive(i) ==
    /\ fl[i] = "select" /\ fpc = "send"
    /\ fpc' = "idle"
    /\ fl' = [fl EXCEPT ![i] = "write"]
    /\ flushed' = Append(flushed, i)
    /\ UNCHANGED <<statVars, mainVars, pollVars, snmpVars, orderVars, cfgVars, pts, tick, loopVars,
                   subVars, nflush>>

\* case <-tick with points, or the point that fills the batch
FlushTrigger(i) ==
    /\ fl[i] = "select"
    /\ fl' = [fl EXCEPT ![i] = "write"]
    /\ UNCHANGED <<senderVars, statVars, mainVars, pollVars, snmpVars, orderVars, flushed>>

\* conn.Write(bp) returns an error
FlushWriteFail(i) ==
    /\ fl[i] = "write"
    /\ fl' = [fl EXCEPT ![i] = "sleep"]
    /\ UNCHANGED <<senderVars, statVars, mainVars, pollVars, snmpVars, orderVars, flushed>>

\* time.Sleep(30 * time.Second) ends
FlushCoolDown(i) ==
    /\ fl[i] = "sleep"
    /\ fl' = [fl EXCEPT ![i] = "write"]
    /\ UNCHANGED <<senderVars, statVars, mainVars, pollVars, snmpVars, orderVars, flushed>>

\* conn.Write(bp) succeeds: back to the select
FlushWriteOK(i) ==
    /\ fl[i] = "write"
    /\ fl' = [fl EXCEPT ![i] = "select"]
    /\ UNCHANGED <<senderVars, statVars, mainVars, pollVars, snmpVars, orderVars, flushed>>

FlushNext ==
    \/ FlushCall
    \/ \E i \in Senders : FlushNewSender(i)
    \/ \E i \in Senders : FlushReceive(i)
    \/ \E i \in Senders : FlushTrigger(i)
    \/ \E i \in Senders : FlushWriteFail(i)
    \/ \E i \in Senders : FlushCoolDown(i)
    \/ \E i \in Senders : FlushWriteOK(i)

OrderInit == owner = <<>>

Init ==
    /\ SenderInit /\ StatsInit /\ MainInit /\ GatherInit /\ SnmpInit /\ FlushInit
    /\ OrderInit

SpecFlush == Init /\ [][FlushNext]_vars

SpecSnmp == Init /\ [][SnmpNext]_vars

SpecStats == Init /\ [][StatsNext]_vars

\* Gather's steps and its ticker are scheduled fairly, a poll returns, and
\* an attempt to reconnect that is made again and again succeeds in the end
SpecGather ==
    /\ Init /\ [][GatherNext]_vars
    /\ WF_vars(GatherPoll) /\ WF_vars(ReconnectSleep)
    /\ SF_vars(ReconnectOK)
    /\ WF_vars(GatherTimerFire) /\ WF_vars(WaitTick)
    /\ WF_vars(GatherReturn)

\* init(): os.Stat, ReadFile and gcfg.ReadStringInto; log.Fatal ends the
\* process when one of them fails; else cfg holds the configuration
\* (conf.agents: the snmp sections as agentList will list them)
LoadConfig ==
    /\ proc = "up" /\ mpc = "load"
    /\ \/ /\ proc' = "fatal: config"
          /\ UNCHANGED <<conf, mpc>>
       \/ /\ \E ss \in [SenderNames -> {"none", "ok", "bad"}], ag \in AgentLists,
                http \in BOOLEAN :
                /\ TotalCalls(ag) <= MaxPollers
                /\ conf' = [senders |-> ss, agents |-> ag, http |-> http]
          /\ mpc' = "agentList"
          /\ UNCHANGED proc
    /\ UNCHANGED <<senderVars, statVars, pollVars, otherVars, quit, vk, made, senderErr, ai, cur, gs, sLock,
                   statsMap, regLog, hpc, snap, todo, lockKeys, nsnap, npoll>>

\* main: agents, err := agentList(); panic(err) when an snmp section names
\* a mib section the configuration lacks
MainAgentList ==
    /\ proc = "up" /\ mpc = "agentList"
    /\ \E found \in BOOLEAN :
          IF found THEN mpc' = "mode" /\ UNCHANGED proc
                   ELSE proc' = "panic: no mib config" /\ UNCHANGED mpc
    /\ UNCHANGED <<senderVars, statVars, pollVars, otherVars, quit, vk, conf, made, senderErr, ai, cur, gs, sLock,
                   statsMap, regLog, hpc, snap, todo, lockKeys, nsnap, npoll>>

\* main: the -dump flag; else the mib file is named (os.Exit(1) if not)
\* and loaded (panic if snmp.LoadMIBs fails); then the -sample flag
MainMode ==
    /\ proc = "up" /\ mpc = "mode"
    /\ \E dump \in BOOLEAN, mibFile \in BOOLEAN, loaded \in BOOLEAN, sample \in BOOLEAN :
          IF dump THEN mpc' = "dump" /\ UNCHANGED proc
          ELSE IF ~mibFile THEN proc' = "exit: no mibfile" /\ UNCHANGED mpc
          ELSE IF ~loaded THEN proc' = "panic: mibs" /\ UNCHANGED mpc
          ELSE IF sample THEN mpc' = "sample" /\ UNCHANGED proc
          ELSE mpc' = "senders" /\ UNCHANGED proc
    /\ UNCHANGED <<senderVars, statVars, pollVars, otherVars, quit, vk, conf, made, senderErr, ai, cur, gs, sLock,
                   statsMap, regLog, hpc, snap, todo, lockKeys, nsnap, npoll>>

\* main: dumper(agents) prints the parsed mibs; panic on its error, else
\* main returns
MainDump ==
    /\ proc = "up" /\ mpc = "dump"
    /\ \E ok \in BOOLEAN :
          proc' = IF ok THEN "exit" ELSE "panic: dump"
    /\ UNCHANGED <<senderVars, statVars, pollVars, otherVars, quit, vk, conf, mpc, made, senderErr, ai, cur, gs, sLock,
                   statsMap, regLog, hpc, snap, todo, lockKeys, nsnap, npoll>>

\* main: sampler(agents) fetches once from each host with its own wait
\* group and a debug sender, and returns; main returns
MainSample ==
    /\ proc = "up" /\ mpc = "sample"
    /\ proc' = "exit"
    /\ UNCHANGED <<senderVars, statVars, pollVars, otherVars, quit, vk, conf, mpc, made, senderErr, ai, cur, gs, sLock,
                   statsMap, regLog, hpc, snap, todo, lockKeys, nsnap, npoll>>

Configured == {n \in SenderNames : conf.senders[n] # "none"}

\* (mutant) getSenders goes on after a makeSender error
MakeSenderIgnoresError(n) ==
    /\ proc = "up" /\ mpc = "senders"
    /\ n \in Configured \ made
    /\ made' = made \cup {n}
    /\ senderErr' = (senderErr \/ conf.senders[n] = "bad")
    /\ UNCHANGED <<senderVars, statVars, pollVars, otherVars, quit, vk, proc, conf, mpc, ai, cur, gs, sLock, statsMap,
                   regLog, hpc, snap, todo, lockKeys, nsnap, npoll>>

\* getSenders: one turn of its loop over cfg.Influx
MakeSender(n) ==
    /\ proc = "up" /\ mpc = "senders"
    /\ n \in Configured \ made
    /\ IF conf.senders[n] = "bad"
         THEN /\ proc' = "panic: sender"
              /\ senderErr' = TRUE
              /\ UNCHANGED made
         ELSE /\ made' = made \cup {n}
              /\ UNCHANGED <<proc, senderErr>>
    /\ UNCHANGED <<senderVars, statVars, pollVars, otherVars, quit, vk, conf, mpc, ai, cur, gs, sLock, statsMap,
                   regLog, hpc, snap, todo, lockKeys, nsnap, npoll>>

\* getSenders returns the map
GetSendersReturn ==
    /\ proc = "up" /\ mpc = "senders"
    /\ made = Configured
    /\ mpc' = "agents"
    /\ UNCHANGED <<senderVars, statVars, pollVars, otherVars, quit, vk, proc, conf, made, senderErr, ai, cur, gs, sLock,
                   statsMap, regLog, hpc, snap, todo, lockKeys, nsnap, npoll>>

\* (mutant) the "*" sender is looked up first
SenderForStarFirst(name) ==
    IF "*" \in made THEN "*"
    ELSE IF name \in made THEN name
    ELSE ""

\* senders[a.Name], else senders["*"], else none ("")
SenderFor(name) ==
    IF name \in made THEN name
    ELSE IF "*" \in made THEN "*"
    ELSE ""

\* main's loop reaches the next agent and looks its sender up
MainLookup ==
    /\ proc = "up" /\ mpc = "agents"
    /\ ai <= Len(conf.agents)
    /\ LET a == conf.agents[ai]
       IN  IF SenderFor(a.name) = ""
             THEN /\ proc' = "panic: no sender"
                  /\ UNCHANGED <<mpc, cur>>
             ELSE /\ mpc' = "spawn"
                  /\ cur' = GatherCalls(a, SenderFor(a.name))
                  /\ UNCHANGED proc
    /\ UNCHANGED <<senderVars, statVars, pollVars, otherVars, quit, vk, conf, made, senderErr, ai, gs, sLock, statsMap,
                   regLog, hpc, snap, todo, lockKeys, nsnap, npoll>>

\* a gather goroutine at its first statement, with its arguments and its
\* locals: stats (got, bad), the mutex m (0: free, 1: held by its errFn,
\* -1: held by getStats in its accessor), err (the outcome of its query)
NewGather(a, c) ==
    [pc |-> "check", host |-> c.host, name |-> a.name, oid |-> c.oid,
     freq |-> a.freq, send |-> c.send, got |-> 0, bad |-> 0,
     err |-> FALSE, m |-> 0]

\* quit.Add(1); go gather(send, profile, crit, a.Name)
MainSpawn ==
    /\ proc = "up" /\ mpc = "spawn"
    /\ quit' = quit + 1
    /\ gs' = Append(gs, NewGather(conf.agents[ai], Head(cur)))
    /\ cur' = Tail(cur)
    /\ IF Len(cur) = 1
         THEN mpc' = "agents" /\ ai' = ai + 1
         ELSE UNCHANGED <<mpc, ai>>
    /\ UNCHANGED <<senderVars, statVars, pollVars, otherVars, vk, proc, conf, made, senderErr, sLock, statsMap,
                   regLog, hpc, snap, todo, lockKeys, nsnap, npoll>>

\* after the loop: if httpPort > 0 { go webServer(httpPort) }
MainWeb ==
    /\ proc = "up" /\ mpc = "agents"
    /\ ai > Len(conf.agents)
    /\ hpc' = IF conf.http THEN "idle" ELSE "off"
    /\ mpc' = "wait"
    /\ UNCHANGED <<senderVars, statVars, pollVars, otherVars, quit, vk, proc, conf, made, senderErr, ai, cur, gs, sLock,
                   statsMap, regLog, snap, todo, lockKeys, nsnap, npoll>>

\* (mutant) main returns without quit.Wait()
MainWaitReturnsEarly ==
    /\ proc = "up" /\ mpc = "wait"
    /\ proc' = "exit"
    /\ UNCHANGED <<senderVars, statVars, pollVars, otherVars, quit, vk, conf, mpc, made, senderErr, ai, cur, gs, sLock,
                   statsMap, regLog, hpc, snap, todo, lockKeys, nsnap, npoll>>

\* quit.Wait() returns when the counter is zero; main returns
MainWait ==
    /\ proc = "up" /\ mpc = "wait"
    /\ quit = 0
    /\ proc' = "exit"
    /\ UNCHANGED <<senderVars, statVars, pollVars, otherVars, quit, vk, conf, mpc, made, senderErr, ai, cur, gs, sLock,
                   statsMap, regLog, hpc, snap, todo, lockKeys, nsnap, npoll>>

\* ------------------------------------------------------------- gather
\* (mutant) gather without the test of the frequency
FreqNeverInvalid(f) == FALSE

\* crit.Freq < 1
FreqInvalid(f) == f < 1

\* fmt.Sprintf("%s/%s", p.Host, mibID)
Key(host, mibID) == host \o <<"/">> \o <<mibID>>

\* the first statement of gather
GatherCheck(g) ==
    /\ proc = "up" /\ gs[g].pc = "check"
    /\ IF FreqInvalid(gs[g].freq)
         THEN /\ proc' = "panic: frequency"
              /\ gs' = [gs EXCEPT ![g].pc = "panic"]
         ELSE /\ gs' = [gs EXCEPT ![g].pc = "lock"]
              /\ UNCHANGED proc
    /\ UNCHANGED <<senderVars, statVars, pollVars, otherVars, quit, vk, conf, mpc, made, senderErr, ai, cur, sLock,
                   statsMap, regLog, hpc, snap, todo, lockKeys, nsnap, npoll>>

\* (mutant) sLock.Lock() never waits
SLockNeverBlocks == TRUE

\* sLock.Lock() goes through when nobody holds sLock
SLockFree == sLock = 0

\* addStats: sLock.Lock()
AddStatsLock(g) ==
    /\ proc = "up" /\ gs[g].pc = "lock"
    /\ SLockFree
    /\ sLock' = g
    /\ gs' = [gs EXCEPT ![g].pc = "store"]
    /\ UNCHANGED <<senderVars, statVars, pollVars, otherVars, quit, vk, proc, conf, mpc, made, senderErr, ai, cur,
                   statsMap, regLog, hpc, snap, todo, lockKeys, nsnap, npoll>>

\* the map after statsMap[k] = v
MapSet(mp, k, v) == [x \in DOMAIN mp \cup {k} |-> IF x = k THEN v ELSE mp[x]]

\* (mutant) addStats returns without sLock.Unlock()
AddStatsStoreNoUnlock(g) ==
    /\ proc = "up" /\ gs[g].pc = "store"
    /\ statsMap' = MapSet(statsMap, Key(gs[g].host, gs[g].name), g)
    /\ regLog' = Append(regLog, [key |-> Key(gs[g].host, gs[g].name), g |-> g])
    /\ gs' = [gs EXCEPT ![g].pc = "poll"]
    /\ UNCHANGED <<senderVars, statVars, pollVars, otherVars, quit, vk, proc, conf, mpc, made, senderErr, ai, cur,
                   sLock, hpc, snap, todo, lockKeys, nsnap, npoll>>

\* addStats: statsMap[name] = fn; sLock.Unlock()
AddStatsStore(g) ==
    /\ proc = "up" /\ gs[g].pc = "store"
    /\ statsMap' = MapSet(statsMap, Key(gs[g].host, gs[g].name), g)
    /\ regLog' = Append(regLog, [key |-> Key(gs[g].host, gs[g].name), g |-> g])
    /\ sLock' = 0
    /\ gs' = [gs EXCEPT ![g].pc = "poll"]
    /\ UNCHANGED <<senderVars, statVars, pollVars, otherVars, quit, vk, proc, conf, mpc, made, senderErr, ai, cur,
                   hpc, snap, todo, lockKeys, nsnap, npoll>>

\* snmp.Poller: one poll cycle; errFn counts it as a get or as an error
Poll(g) ==
    /\ proc = "up" /\ gs[g].pc = "poll"
    /\ npoll < MaxPolls
    /\ npoll' = npoll + 1
    /\ \E ok \in BOOLEAN :
          gs' = IF ok THEN [gs EXCEPT ![g].got = @ + 1]
                      ELSE [gs EXCEPT ![g].bad = @ + 1]
    /\ UNCHANGED <<senderVars, statVars, pollVars, otherVars, quit, vk, proc, conf, mpc, made, senderErr, ai, cur, sLock,
                   statsMap, regLog, hpc, snap, todo, lockKeys, nsnap>>

\* snmp.Poller returns; quit.Done()
PollerReturn(g) ==
    /\ proc = "up" /\ gs[g].pc = "poll"
    /\ gs' = [gs EXCEPT ![g].pc = "done"]
    /\ quit' = quit - 1
    /\ UNCHANGED <<senderVars, statVars, pollVars, otherVars, vk, proc, conf, mpc, made, senderErr, ai, cur, sLock,
                   statsMap, regLog, hpc, snap, todo, lockKeys, nsnap, npoll>>

\* ------------------------------------------------------------- getStats
\* what the accessor registered by gather g returns
Accessor(g) == [GetCnt |-> gs[g].got, ErrCnt |-> gs[g].bad]

\* status() calls getStats: m := make(map[string]snmpStats)
GetStatsCall ==
    /\ proc = "up" /\ hpc = "idle"
    /\ nsnap < MaxSnaps
    /\ nsnap' = nsnap + 1
    /\ snap' = <<>>
    /\ hpc' = "lock"
    /\ UNCHANGED <<senderVars, statVars, pollVars, otherVars, quit, vk, proc, conf, mpc, made, senderErr, ai, cur, gs,
                   sLock, statsMap, regLog, todo, lockKeys, npoll>>

\* sLock.Lock(); the range over statsMap begins
GetStatsLock ==
    /\ proc = "up" /\ hpc = "lock"
    /\ SLockFree
    /\ sLock' = -1
    /\ todo' = DOMAIN statsMap
    /\ lockKeys' = DOMAIN statsMap
    /\ hpc' = "iter"
    /\ UNCHANGED <<senderVars, statVars, pollVars, otherVars, quit, vk, proc, conf, mpc, made, senderErr, ai, cur, gs,
                   statsMap, regLog, snap, nsnap, npoll>>

\* one turn of the range, in the map's order: m[k] = fn()
GetStatsVisit(k) ==
    /\ proc = "up" /\ hpc = "iter"
    /\ k \in todo
    /\ snap' = MapSet(snap, k, Accessor(statsMap[k]))
    /\ todo' = todo \ {k}
    /\ UNCHANGED <<senderVars, statVars, pollVars, otherVars, quit, vk, proc, conf, mpc, made, senderErr, ai, cur, gs,
                   sLock, statsMap, regLog, hpc, lockKeys, nsnap, npoll>>

\* sLock.Unlock(); return m: the call is over and m is the caller's
GetStatsReturn ==
    /\ proc = "up" /\ hpc = "iter"
    /\ todo = {}
    /\ sLock' = 0
    /\ snap' = <<>> /\ lockKeys' = {}
    /\ hpc' = "idle"
    /\ UNCHANGED <<senderVars, statVars, pollVars, otherVars, quit, vk, proc, conf, mpc, made, senderErr, ai, cur, gs,
                   statsMap, regLog, todo, nsnap, npoll>>

Keys == {Key(h, n) : h \in {H1, H2}, n \in AgentNames}

MainNext ==
    \/ LoadConfig
    \/ MainAgentList
    \/ MainMode
    \/ MainDump
    \/ MainSample
    \/ \E n \in SenderNames : MakeSender(n)
    \/ GetSendersReturn
    \/ MainLookup
    \/ MainSpawn
    \/ MainWeb
    \/ MainWait
    \/ \E g \in DOMAIN gs : GatherCheck(g)
    \/ \E g \in DOMAIN gs : AddStatsLock(g)
    \/ \E g \in DOMAIN gs : AddStatsStore(g)
    \/ \E g \in DOMAIN gs : Poll(g)
    \/ \E g \in DOMAIN gs : PollerReturn(g)
    \/ GetStatsCall
    \/ GetStatsLock
    \/ \E k \in Keys : GetStatsVisit(k)
    \/ GetStatsReturn

SpecMain == Init /\ [][MainNext]_vars

\* ------------------------------------------------------------- the locks
\* The poll cycle and getStats at the level of the locks: the start-up and
\* the registration are the steps of main and gather above; the poll cycle
\* is the query, the Submit call and errFn, and a turn of getStats' range
\* is the call of the accessor and its return.
\* gather g's mutex m is free
StatsMutexFree(g) == gs[g].m = 0

\* snmp.Poller: a poll cycle begins with the query to the device
PollQuery(g) ==
    /\ proc = "up" /\ gs[g].pc = "poll"
    /\ npoll < MaxQueries
    /\ npoll' = npoll + 1
    /\ gs' = [gs EXCEPT ![g].pc = "query"]
    /\ UNCHANGED <<senderVars, statVars, pollVars, otherVars, quit, vk, proc, conf, mpc, made, senderErr, ai, cur, sLock,
                   statsMap, regLog, hpc, snap, todo, lockKeys, nsnap>>

\* the query returns its values, which go to the sender, or an error, which
\* goes to errFn
QueryReturn(g) ==
    /\ proc = "up" /\ gs[g].pc = "query"
    /\ \E ok \in BOOLEAN :
          gs' = [gs EXCEPT ![g].pc = IF ok THEN "submit" ELSE "report",
                           ![g].err = ~ok]
    /\ UNCHANGED <<senderVars, statVars, pollVars, otherVars, quit, vk, proc, conf, mpc, made, senderErr, ai, cur, sLock,
                   statsMap, regLog, hpc, snap, todo, lockKeys, nsnap, npoll>>

\* the sender closure: send(name, tags, values, ts.Stop) returns, which it
\* does when the sender's queue has room; errFn(nil) is next
SubmitReturn(g) ==
    /\ proc = "up" /\ gs[g].pc = "submit"
    /\ gs' = [gs EXCEPT ![g].pc = "report"]
    /\ UNCHANGED <<senderVars, statVars, pollVars, otherVars, quit, vk, proc, conf, mpc, made, senderErr, ai, cur, sLock,
                   statsMap, regLog, hpc, snap, todo, lockKeys, nsnap, npoll>>

\* errFn(err): m.Lock()
ErrFnEnter(g) ==
    /\ proc = "up" /\ gs[g].pc = "report"
    /\ StatsMutexFree(g)
    /\ gs' = [gs EXCEPT ![g].pc = "errfn", ![g].m = 1]
    /\ UNCHANGED <<senderVars, statVars, pollVars, otherVars, quit, vk, proc, conf, mpc, made, senderErr, ai, cur, sLock,
                   statsMap, regLog, hpc, snap, todo, lockKeys, nsnap, npoll>>

\* (mutant) errFn returns without m.Unlock()
ErrFnLeaveKeepsMutex(g) ==
    /\ proc = "up" /\ gs[g].pc = "errfn"
    /\ gs' = IF gs[g].err
               THEN [gs EXCEPT ![g].bad = @ + 1, ![g].pc = "poll"]
               ELSE [gs EXCEPT ![g].got = @ + 1, ![g].pc = "poll"]
    /\ UNCHANGED <<senderVars, statVars, pollVars, otherVars, quit, vk, proc, conf, mpc, made, senderErr, ai, cur, sLock,
                   statsMap, regLog, hpc, snap, todo, lockKeys, nsnap, npoll>>

\* errFn(err): the cycle is counted as a get or as an error; m.Unlock()
ErrFnLeave(g) ==
    /\ proc = "up" /\ gs[g].pc = "errfn"
    /\ gs' = IF gs[g].err
               THEN [gs EXCEPT ![g].bad = @ + 1, ![g].pc = "poll", ![g].m = 0]
               ELSE [gs EXCEPT ![g].got = @ + 1, ![g].pc = "poll", ![g].m = 0]
    /\ UNCHANGED <<senderVars, statVars, pollVars, otherVars, quit, vk, proc, conf, mpc, made, senderErr, ai, cur, sLock,
                   statsMap, regLog, hpc, snap, todo, lockKeys, nsnap, npoll>>

\* one turn of getStats' range, in the map's order: fn() is called and
\* takes the mutex m of the gather that registered it
AccessorEnter(k) ==
    /\ proc = "up" /\ hpc = "iter"
    /\ k \in todo
    /\ StatsMutexFree(statsMap[k])
    /\ gs' = [gs EXCEPT ![statsMap[k]].m = -1]
    /\ vk' = k
    /\ todo' = todo \ {k}
    /\ hpc' = "copy"
    /\ UNCHANGED <<senderVars, statVars, pollVars, otherVars, quit, proc, conf, mpc, made, senderErr, ai, cur,
                   sLock, statsMap, regLog, snap, lockKeys, nsnap, npoll>>

\* s := stats; m.Unlock(); return s; and getStats' m[k] = s
AccessorLeave ==
    /\ proc = "up" /\ hpc = "copy"
    /\ snap' = MapSet(snap, vk, Accessor(statsMap[vk]))
    /\ gs' = [gs EXCEPT ![statsMap[vk]].m = 0]
    /\ vk' = <<>>
    /\ hpc' = "iter"
    /\ UNCHANGED <<senderVars, statVars, pollVars, otherVars, quit, proc, conf, mpc, made, senderErr, ai, cur,
                   sLock, statsMap, regLog, todo, lockKeys, nsnap, npoll>>

LocksNext ==
    \/ LoadConfig
    \/ MainAgentList
    \/ MainMode
    \/ MainDump
    \/ MainSample
    \/ \E n \in SenderNames : MakeSender(n)
    \/ GetSendersReturn
    \/ MainLookup
    \/ MainSpawn
    \/ MainWeb
    \/ MainWait
    \/ \E g \in DOMAIN gs : GatherCheck(g)
    \/ \E g \in DOMAIN gs : PollerReturn(g)
    \/ \E g \in DOMAIN gs : AddStatsLock(g)
    \/ \E g \in DOMAIN gs : AddStatsStore(g)
    \/ \E g \in DOMAIN gs : PollQuery(g)
    \/ \E g \in DOMAIN gs : QueryReturn(g)
    \/ \E g \in DOMAIN gs : SubmitReturn(g)
    \/ \E g \in DOMAIN gs : ErrFnEnter(g)
    \/ \E g \in DOMAIN gs : ErrFnLeave(g)
    \/ GetStatsCall
    \/ GetStatsLock
    \/ \E k \in Keys : AccessorEnter(k)
    \/ AccessorLeave
    \/ GetStatsReturn

\* the steps of a thread that holds a lock, and those of getStats
LockSteps ==
    \/ \E g \in DOMAIN gs : AddStatsStore(g)
    \/ \E g \in DOMAIN gs : ErrFnLeave(g)
    \/ GetStatsLock
    \/ \E k \in Keys : AccessorEnter(k)
    \/ AccessorLeave
    \/ GetStatsReturn

\* a thread that holds a lock, or getStats, takes a step when one of them
\* can; a query or a Submit call may never return (the device does not
\* answer, the sender's queue stays full)
SpecLocks == Init /\ [][LocksNext]_vars /\ WF_vars(LockSteps)

\* a wait at a Lock() ends: addStats takes sLock, errFn takes m
LockWaits ==
    \E g \in DOMAIN gs : AddStatsLock(g) \/ ErrFnEnter(g)

\* as SpecLocks, and a goroutine that waits at a Lock() takes a step when
\* one of the waiting goroutines can
SpecLocksFair ==
    /\ Init /\ [][LocksNext]_vars
    /\ WF_vars(LockSteps \/ LockWaits)

\* ------------------------------------------------------------- the sender
Next ==
    \/ NewSender
    \/ \E p \in Producers : SubmitInvalid(p)
    \/ \E p \in Producers : SubmitNow(p)
    \/ \E p \in Producers : SubmitBlock(p)
    \/ \E p \in Producers : SubmitUnblock(p)
    \/ TimerFire
    \/ FlushCall
    \/ LoopTick
    \/ LoopPoint
    \/ \E p \in Producers : LoopPointDirect(p)
    \/ LoopFlush
    \/ WriteFail
    \/ CoolDown
    \/ WriteOK

Spec == Init /\ [][Next]_vars

\* the sender with the owner of every point recorded
OrderNext ==
    \/ NewSender
    \/ \E p \in Producers : SubmitInvalid(p)
    \/ \E p \in Producers : OwnedSubmitNow(p)
    \/ \E p \in Producers : OwnedSubmitBlock(p)
    \/ \E p \in Producers : SubmitUnblock(p)
    \/ TimerFire
    \/ FlushCall
    \/ LoopTick
    \/ LoopPoint
    \/ \E p \in Producers : LoopPointDirect(p)
    \/ LoopFlush
    \/ WriteFail
    \/ CoolDown
    \/ WriteOK

SpecOrder == Init /\ [][OrderNext]_vars

\* ============================================================= claims
Max(a, b) == IF a >= b THEN a ELSE b

\* the loop receives from the ticker in this step
TickReceived == lpc = "select" /\ tick /\ ~tick'
\* the loop appends a point to the batch in this step
PointAppended == lpc = "select" /\ Len(bp') = Len(bp) + 1
\* the loop receives the flush-on-demand signal in this step
FlushReceived == lpc = "select" /\ fpc = "send" /\ fpc' = "idle"
\* conn.Write is called in this step
WriteAttempted == Len(att') = Len(att) + 1

\* C2: every point whose Submit returned nil is in exactly one of the queue,
\* the current batch and the successfully written batches, and there once.
C2_ExactlyOnePlace ==
    \A p \in accepted :
        Occurs(p, pts) + Occurs(p, bp) + Occurs(p, Flatten(written)) = 1

C2_Witness ==
    /\ fails > 0
    /\ \E p \in accepted : Occurs(p, pts) = 1
    /\ \E p \in accepted : Occurs(p, bp) = 1
    /\ \E p \in accepted : Occurs(p, Flatten(written)) = 1

\* C3 as claimed: with batchSize >= 1 the loop leaves the select for a write
\* only after appending the batchSize-th point or on a tick with a non-empty
\* batch.
C3_OnlyTwoTriggers ==
    [][(batchSize >= 1 /\ lpc = "select" /\ lpc' = "write") =>
          \/ PointAppended /\ count' = batchSize /\ Len(bp') = batchSize
          \/ TickReceived /\ Len(bp) > 0 /\ bp' = bp]_vars

\* C3 amended: with batchSize >= 1 the loop leaves the select for a write
\* only after appending the batchSize-th point, on a tick with a non-empty
\* batch, or on a flush-on-demand signal.
C3_ThreeTriggers ==
    [][(batchSize >= 1 /\ lpc = "select" /\ lpc' = "write") =>
          \/ PointAppended /\ count' = batchSize /\ Len(bp') = batchSize
          \/ TickReceived /\ Len(bp) > 0 /\ bp' = bp
          \/ FlushReceived /\ bp' = bp]_vars

C3_Witness ==
    /\ batchSize = 2 /\ lpc = "write" /\ last = "flush" /\ Len(bp) = 1
    /\ \E i \in DOMAIN written : Len(written[i]) = 2

\* C4: a tick received while the batch is empty starts no write and leaves
\* the batch, the counter and the queue as they were; the loop is back in
\* the select.
C4_IdleTick ==
    [][(TickReceived /\ Len(bp) = 0) =>
          /\ lpc' = "select" /\ ~WriteAttempted /\ att' = att
          /\ bp' = bp /\ count' = count /\ pts' = pts
          /\ written' = written]_vars

C4_Witness ==
    /\ last = "idle-tick" /\ lpc = "select" /\ bp = <<>> /\ count = 0
    /\ Len(pts) > 0 /\ written # <<>>

\* C5 as claimed: with queueSize >= 1 and batchSize >= 1, while no write has
\* succeeded at most queueSize Submit calls have returned.
C5_AtMostQ ==
    (spc = "running" /\ queueSize >= 1 /\ batchSize >= 1 /\ written = <<>>) =>
        Cardinality(accepted) <= queueSize

\* C5 amended: while no write has succeeded, at most queueSize +
\* max(batchSize, 1) Submit calls have returned (the batch takes up to
\* batchSize points out of the queue before the first write), and while the
\* loop is in its write loop with a full queue no Submit call returns.
C5_Backpressure ==
    /\ []((spc = "running" /\ written = <<>>) =>
            Cardinality(accepted) <= queueSize + Max(batchSize, 1))
    /\ [][(lpc # "select" /\ Len(pts) >= queueSize) => accepted' = accepted]_vars

C5_Witness ==
    /\ written = <<>> /\ fails = MaxFails /\ lpc = "sleep"
    /\ queueSize >= 1 /\ Len(pts) = queueSize
    /\ Cardinality(accepted) = queueSize + batchSize
    /\ \E p \in Producers : sub[p].pc = "send"

\* the retries of a write: while a batch is being written every attempt so
\* far carried the current batch and left one "influxdb write error" line
\* in the log; when the write has succeeded after f failures there were f
\* such lines and f + 1 attempts, every attempt carried the batch that was
\* written, every attempt but the first came after the cool-down, and the
\* batch was written once.
RetrySameBatch ==
    /\ lpc \in {"write", "sleep"} =>
          /\ errs = Len(att)
          /\ \A i \in DOMAIN att : att[i].b = bp
    /\ last = "ok" =>
          /\ Len(att) = errs + 1
          /\ \A i \in DOMAIN att : att[i].b = written[Len(written)]
          /\ \A p \in Range(written[Len(written)]) :
                Occurs(p, Flatten(written)) = 1
    /\ \A i \in DOMAIN att :
          IF i = 1 THEN att[i].after \in {"tick", "full", "flush"}
                   ELSE att[i].after = "cool"

\* the calls of an error callback made for the current flush: NewSender
\* takes no callback, and a failed write calls log.Println and time.Sleep
\* and nothing else
errFnCalls == 0

\* C6 as claimed: when the write of a batch has failed f times and then
\* succeeded, the error callback was called f times, there were f + 1
\* attempts, every attempt carried the whole batch, every attempt but the
\* first came after the cool-down, and one attempt succeeded.
C6_ErrorCallbackPerFailure ==
    /\ RetrySameBatch
    /\ last = "ok" => errFnCalls = Len(att) - 1

\* C7: every snapshot the accessor returns is a value stats had between two
\* whole errFn calls, and the accessor's copy is the current such value.
C7_SnapshotWhole ==
    \A r \in Readers :
        /\ ret[r] \in hist
        /\ rpc[r] = "unlock" => scopy[r] = stats /\ stats \in hist

C7_Witness ==
    \E r \in Readers :
        /\ ret[r].ErrCnt = 1 /\ ret[r].GetCnt = 1 /\ ret[r].LastError # 0
        /\ rpc[r] = "lock" /\ m \in Writers /\ wpc[m] = "lasttime"

\* C8 as claimed: no value of the three parameters makes NewSender fail, and
\* a running sender whose batchSize, queueSize or period is zero or negative
\* runs with 4096 points per batch, 65535 queue slots and a 10-second
\* interval.
C8_Defaults ==
    /\ spc # "panic"
    /\ spc = "running" =>
          /\ batchSize <= 0 => Threshold = 4096
          /\ queueSize <= 0 => Capacity = 65535
          /\ period <= 0 => Delay = 10

\* the accepted points the store does not have yet
Pending == accepted \ Delivered
NoSubmitPending == \A p \in Producers : sub[p].pc = "idle"

\* a tick-triggered write that succeeds at once is one write of the whole
\* batch, and leaves an empty batch and a counter of 0
TickWriteResets ==
    (lpc = "write" /\ last = "tick" /\ lpc' = "select") =>
        /\ written' = Append(written, bp) /\ Len(att') = 1
        /\ bp' = <<>> /\ count' = 0

\* C9 as claimed: when 0 < m < batchSize points are submitted and not yet
\* written and no Submit call is pending, a received tick starts a write of
\* all m points, which is the only write and resets batch and counter.
C9_TickWritesAllSubmitted ==
    [][/\ (/\ TickReceived /\ NoSubmitPending
           /\ 0 < Cardinality(Pending) /\ Cardinality(Pending) < batchSize) =>
              lpc' = "write" /\ bp' = bp /\ Range(bp) = Pending
       /\ TickWriteResets]_vars

\* C9 amended: the same, provided the loop has taken all m points from the
\* queue when it receives the tick.
C9_TickWritesBatch ==
    [][/\ (/\ TickReceived /\ NoSubmitPending /\ pts = <<>>
           /\ 0 < Cardinality(Pending) /\ Cardinality(Pending) < batchSize) =>
              lpc' = "write" /\ bp' = bp /\ Range(bp) = Pending
       /\ TickWriteResets]_vars

C9_Witness ==
    /\ last = "ok" /\ Len(att) = 1 /\ att[1].after = "tick"
    /\ Len(att[1].b) >= 1 /\ Len(att[1].b) < batchSize
    /\ written = <<att[1].b>> /\ accepted = Range(att[1].b)
    /\ bp = <<>> /\ count = 0 /\ pts = <<>>

\* C10: with batchSize >= 1, appending the batchSize-th point takes the loop
\* to the write, and from there its next step is the write attempt: before
\* it the loop appends nothing and receives no tick.
C10_FullBatchWritesAtOnce ==
    [][/\ (PointAppended /\ batchSize >= 1 /\ count' = batchSize) =>
              lpc' = "write"
       /\ (lpc = "write" /\ last = "full") =>
              \/ WriteAttempted
              \/ bp' = bp /\ count' = count /\ lpc' = lpc /\ ~(tick /\ ~tick')]_vars

C10_Witness ==
    /\ lpc = "write" /\ last = "full" /\ att = <<>>
    /\ batchSize = 2 /\ count = 2 /\ Len(bp) = 2
    /\ Len(pts) > 0 /\ tick

\* the producers blocked at `pts <- pt`, and the points they hold
Blocked == {p \in Producers : sub[p].pc = "send"}
Held == {sub[p].pt : p \in Blocked}

\* C11: a Submit call that returns NewPoint's error leaves the queue, the
\* batch, the counter and the accepted points as they were; a step in which
\* a Submit call returns nil puts exactly one new point into the queue (or,
\* on an unbuffered queue, hands it to the loop) and returns no error.
C11_InvalidNeverEnqueued ==
    [][/\ (rejected' # rejected) =>
              /\ rejected' = rejected + 1
              /\ pts' = pts /\ bp' = bp /\ count' = count
              /\ accepted' = accepted /\ written' = written
       /\ (accepted' # accepted) =>
              /\ rejected' = rejected /\ written' = written
              /\ Len(pts') + Len(bp') = Len(pts) + Len(bp) + 1
              /\ \E id \in PointIds \ accepted :
                    /\ accepted' = accepted \cup {id}
                    /\ Occurs(id, pts) + Occurs(id, bp) = 0
                    /\ Occurs(id, pts') + Occurs(id, bp') = 1]_vars

C11_Witness ==
    /\ rejected = 2 /\ Cardinality(accepted) = 1
    /\ Len(pts) = 1 /\ bp = <<>> /\ written = <<>>

\* C12: every point NewPoint accepted is either enqueued (its Submit call
\* returned nil) or still held by its caller, blocked at the send on a
\* queue without room; none is given up and none is in the queue before
\* its call returns.
C12_ValidSubmitWaits ==
    /\ accepted \cup Held = 1..nsub
    /\ accepted \cap Held = {}
    /\ \A p \in Blocked :
          Occurs(sub[p].pt, pts) + Occurs(sub[p].pt, bp)
              + Occurs(sub[p].pt, Flatten(written)) = 0
    /\ Cardinality(Blocked) = nsub - Cardinality(accepted)

C12_Witness ==
    /\ queueSize = 1 /\ Len(pts) = 1 /\ rejected = 0
    /\ lpc = "write" /\ last = "cool"
    /\ \E p \in Producers : sub[p].pc = "send" /\ sub[p].pt = 3

\* C13: NewSender returns an error, and no sender, whenever the database
\* name is empty, and whenever it gets as far as the connectivity probe or
\* the database listing and that check fails; a sender that runs has passed
\* all checks.  After the error nothing of a sender exists: no point is in
\* a queue, a batch or the store, the loop has done nothing, no timer has
\* fired and no Submit call was made.
C13_NoSenderOnError ==
    /\ ~probe.hasDB => spc = "failed"
    /\ (spc \notin {"init", "panic"}
          /\ (~probe.hasDB \/ ~probe.connOK \/ ~probe.dbExists)) => spc = "failed"
    /\ spc = "running" =>
          probe.hasDB /\ probe.connOK /\ probe.dbExists /\ probe.bpOK
    /\ spc = "failed" =>
          /\ pts = <<>> /\ bp = <<>> /\ count = 0 /\ written = <<>>
          /\ lpc = "select" /\ last = "none" /\ att = <<>> /\ ~tick
          /\ nsub = 0 /\ accepted = {} /\ rejected = 0 /\ Blocked = {}
          /\ entered = <<>>

C13_Witness ==
    /\ spc = "failed" /\ probe.hasDB /\ probe.connOK /\ ~probe.dbExists
    /\ fpc = "send"

\* C14: a failed store write leaves the sender running and its loop in one
\* of its three places (the select, the write, the cool-down): after the
\* failure the loop sleeps, holding the batch it tried to write, the sleep
\* can end, and the attempt that follows carries the same batch and can
\* succeed.
C14_LoopSurvivesFailure ==
    /\ fails > 0 => spc = "running"
    /\ spc = "running" =>
          /\ lpc \in {"select", "write", "sleep"}
          /\ lpc = "sleep" => last = "fail"
          /\ last = "fail" =>
                /\ lpc = "sleep" /\ att # <<>> /\ att[Len(att)].b = bp
                /\ ENABLED CoolDown
          /\ last = "cool" =>
                /\ lpc = "write" /\ att # <<>> /\ att[Len(att)].b = bp
                /\ ENABLED WriteOK

C14_Witness ==
    /\ fails = MaxFails /\ last = "cool" /\ lpc = "write"
    /\ Len(bp) = 2 /\ Len(att) = 1 /\ written # <<>>

\* the place of point x in the sequence q
Pos(x, q) == CHOOSE k \in DOMAIN q : q[k] = x

\* the points producer p has constructed, in the order it submitted them
\* (ids are handed out in the order of construction)
PointsOf(p) == {i \in DOMAIN owner : owner[i] = p}

\* C15: the written batches, the current batch and the queue, one after
\* the other, are the points in the order they entered the queue, so the
\* written points are a prefix of that order; and of two points of one
\* producer the one it submitted first has entered the queue before the
\* other was constructed, stands before it in the order of entry, and is
\* written before it: in an earlier batch, or earlier in the same batch.
C15_WrittenInEntryOrder ==
    /\ Flatten(written) \o bp \o pts = entered
    /\ Len(Flatten(written)) <= Len(entered)
    /\ SubSeq(entered, 1, Len(Flatten(written))) = Flatten(written)
    /\ Range(entered) = accepted
    /\ Held \cap Range(entered) = {}
    /\ (1..nsub) \ Held \subseteq Range(entered)
    /\ \A p \in Producers : sub[p].pc = "idle" => sub[p].pt = 0
    /\ DOMAIN owner = 1..nsub
    /\ \A p \in Producers : \A i, j \in PointsOf(p) :
          i < j =>
            /\ i \in Range(entered)
            /\ j \in Range(entered) => Pos(i, entered) < Pos(j, entered)
            /\ j \in Range(Flatten(written)) =>
                  /\ i \in Range(Flatten(written))
                  /\ Pos(i, Flatten(written)) < Pos(j, Flatten(written))

\* the queue holds two points, of two producers, behind a written batch;
\* the producer of the written point has the second point in the queue
C15_Witness ==
    /\ Len(pts) = 2 /\ written # <<>>
    /\ owner[pts[1]] # owner[pts[2]]
    /\ owner[pts[2]] = owner[written[1][1]]

\* the gather goroutines that have registered their accessor
Registered == {regLog[i].g : i \in DOMAIN regLog}
RegisteredKeys == {regLog[i].key : i \in DOMAIN regLog}

\* C16: a gather whose frequency is below 1 never gets past its first
\* statement: it has registered no accessor, polled nothing (no query, no
\* point handed to its sender), and when it has run the process has
\* panicked.
C16_BadFreqFailsFirst ==
    \A g \in DOMAIN gs :
        gs[g].freq < 1 =>
            /\ gs[g].pc \in {"check", "panic"}
            /\ gs[g].got = 0 /\ gs[g].bad = 0
            /\ g \notin Registered
            /\ \A k \in DOMAIN statsMap : statsMap[k] # g
            /\ gs[g].pc = "panic" => proc = "panic: frequency"

C16_Witness ==
    /\ proc = "panic: frequency"
    /\ \E g \in DOMAIN gs : gs[g].freq < 1 /\ gs[g].pc = "panic"
    /\ \E g \in DOMAIN gs : gs[g].freq >= 1 /\ g \in Registered /\ gs[g].got = 1

\* C17 as claimed: no two addStats calls carry the same key, and once main
\* waits and every gather started has registered, the registry has as many
\* entries as gathers were started.
C17_OneKeyPerPoller ==
    /\ \A i, j \in DOMAIN regLog : i # j => regLog[i].key # regLog[j].key
    /\ (mpc = "wait" /\ \A g \in DOMAIN gs : gs[g].pc \in {"poll", "done"}) =>
          Cardinality(DOMAIN statsMap) = Len(gs)

\* C18: the registry holds exactly the keys registered so far (none is ever
\* removed); while getStats holds the lock no addStats gets in, so the keys
\* are those registered when it took the lock; the map it fills has the keys
\* its range has yielded, each with a value the accessor registered under
\* that key has returned; and the map it returns has exactly the registered
\* keys.
C18_SnapshotKeys ==
    /\ DOMAIN statsMap = RegisteredKeys
    /\ hpc = "iter" =>
          /\ sLock = -1
          /\ lockKeys = DOMAIN statsMap
          /\ DOMAIN snap \cup todo = lockKeys
          /\ DOMAIN snap \cap todo = {}
          /\ \A k \in DOMAIN snap :
                /\ snap[k].GetCnt <= gs[statsMap[k]].got
                /\ snap[k].ErrCnt <= gs[statsMap[k]].bad
          /\ todo = {} => DOMAIN snap = RegisteredKeys
    /\ hpc # "iter" => sLock # -1

C18_Witness ==
    /\ hpc = "iter" /\ todo = {} /\ Cardinality(DOMAIN snap) = 1
    /\ \E k \in DOMAIN snap : snap[k].GetCnt = 1
    /\ \E g \in DOMAIN gs : gs[g].pc = "lock"

\* C19: when a makeSender call has failed the process has panicked inside
\* getSenders: no gather was started or is about to be, nothing is
\* registered, nothing was polled and no web server runs; and gathers are
\* started only when every configured sender has been constructed.
C19_SenderFailureAborts ==
    /\ senderErr =>
          /\ proc = "panic: sender" /\ mpc = "senders"
          /\ gs = <<>> /\ cur = <<>>
          /\ DOMAIN statsMap = {} /\ regLog = <<>>
          /\ npoll = 0 /\ hpc = "off" /\ nsnap = 0
    /\ (\E n \in Configured : conf.senders[n] = "bad") => gs = <<>>
    /\ gs # <<>> => made = Configured

C19_Witness ==
    /\ proc = "panic: sender" /\ senderErr
    /\ made = {"*"} /\ conf.senders["a"] = "bad"
    /\ Len(conf.agents) = 2

\* C20: Gather ends only on its last counted cycle (or, before any poll, on
\* the first connect failing), never on a poll error; after a failed cycle
\* that is not the last counted one the connection is closed and the loop
\* reconnects, sleeping between attempts, and then pauses with an open
\* connection; and from the failed cycle the loop gets to its next poll.
C20_FailedCycleFollowed ==
    /\ [](gpc \in {"done", "returned"} => (count0 > 0 /\ gcount = 0 /\ polled))
    /\ [](gpc = "fatal" => ~polled)
    /\ [](gpc \in {"reconnect", "sleep"} => (gerr /\ clientConn # "open"))
    /\ [](gpc = "wait" => clientConn = "open")
    /\ [][(gpc \in {"reconnect", "sleep"}) =>
            (gpc' \in {"reconnect", "sleep", "wait"})]_vars
    /\ [][(gpc = "poll" /\ gpc' # "poll" /\ gerr' /\ gcount # 1) =>
            (gpc' = "reconnect" /\ clientConn' = "closed")]_vars
    /\ (gpc = "reconnect") ~> (gpc = "poll")

C20_Witness ==
    /\ gpc = "poll" /\ gerr /\ polled /\ clientConn = "open"
    /\ count0 = 2 /\ gcount = 1 /\ ndebug = 1

\* the errFn calls that have returned
Completed == ncall - Cardinality({w \in Writers : wpc[w] # "idle"})

\* C21: when an errFn call is about to return, stats is the value it had
\* when the call took the mutex with, for errFn(nil), GetCnt one higher and
\* nothing else changed, and for errFn(err), ErrCnt one higher, LastError
\* the err of the call, LastTime the time the call read, and GetCnt as it
\* was; and whenever no call holds the mutex, GetCnt + ErrCnt is the number
\* of errFn calls that have returned.
C21_ErrFnFrame ==
    /\ \A w \in Writers :
          wpc[w] = "unlock" =>
              IF warg[w] = 0
                THEN stats = [pre[w] EXCEPT !.GetCnt = @ + 1]
                ELSE /\ stats = [pre[w] EXCEPT !.ErrCnt = @ + 1,
                                               !.LastError = warg[w],
                                               !.LastTime = now - 1]
                     /\ stats.LastTime > pre[w].LastTime
    /\ m = 0 => stats.GetCnt + stats.ErrCnt = Completed
    /\ m # 0 => stats.GetCnt + stats.ErrCnt \in {Completed, Completed + 1}

C21_Witness ==
    \E w \in Writers :
        /\ wpc[w] = "unlock" /\ warg[w] # 0
        /\ pre[w].GetCnt = 1 /\ stats.ErrCnt = 1 /\ ncall = MaxCalls
        /\ \E v \in Writers : wpc[v] = "lock"

\* the gather goroutines blocked in a protocol query or in a Submit call
InQueryOrSubmit == {g \in DOMAIN gs : gs[g].pc \in {"query", "submit"}}

\* C22: the registry lock and the stats mutexes are held only by gather
\* goroutines and by the getStats caller (the flush loop, which does the
\* store writes, takes neither); a gather holds the registry lock only
\* between the Lock and the Unlock of addStats and its mutex only inside
\* errFn, so none that is in a query or in a Submit call holds a lock; the
\* getStats caller holds them only while it ranges over the registry and
\* copies; and a getStats call that has begun returns while the process
\* lives, also when queries and Submit calls never return.
C22_NoLockWhileBlocked ==
    /\ [](\A g \in DOMAIN gs :
            /\ g \in InQueryOrSubmit => (sLock # g /\ gs[g].m # 1)
            /\ sLock = g => gs[g].pc = "store"
            /\ gs[g].m = 1 => gs[g].pc = "errfn"
            /\ gs[g].m = -1 => (hpc = "copy" /\ statsMap[vk] = g))
    /\ [](sLock \in {0, -1} \cup DOMAIN gs)
    /\ [](sLock = -1 <=> hpc \in {"iter", "copy"})
    /\ (hpc \in {"lock", "iter", "copy"}) ~> (hpc = "idle" \/ proc # "up")

C22_Witness ==
    /\ Len(gs) = MaxPollers
    /\ InQueryOrSubmit = DOMAIN gs
    /\ \A g \in DOMAIN gs : gs[g].pc = "submit"
    /\ hpc = "copy" /\ todo # {}

\* C23: the point counter is the number of points in the current batch, in
\* the select and everywhere else; and right after a successful write the
\* loop is in the select with an empty batch and a counter of 0.
C23_CountIsBatchLength ==
    /\ lpc = "select" => count = Len(bp)
    /\ count = Len(bp)
    /\ last = "ok" => (lpc = "select" /\ bp = <<>> /\ count = 0)

C23_Witness ==
    /\ last = "ok" /\ lpc = "select" /\ count = 0
    /\ Len(written) = 2 /\ Len(written[1]) = 2 /\ Len(pts) > 0

\* the loop is in its write loop: a write or one of its retries is pending
WritePending == lpc \in {"write", "sleep"}

\* C24: with batchSize >= 1 the batch never holds more than batchSize
\* points; a batch of batchSize points is one the loop is writing; and
\* while a write or its retries are pending the batch stays as it is until
\* the write that succeeds replaces it with an empty one.
C24_BatchWithinSize ==
    /\ [](batchSize >= 1 => Len(bp) <= batchSize)
    /\ []((batchSize >= 1 /\ Len(bp) = batchSize) => WritePending)
    /\ [][WritePending =>
            \/ bp' = bp /\ count' = count
            \/ bp' = <<>> /\ written' = Append(written, bp)]_vars

C24_Witness ==
    /\ batchSize = 2 /\ Len(bp) = 2 /\ lpc = "sleep" /\ fails = MaxFails
    /\ Len(pts) = 1 /\ written = <<>>

\* C25: the queue of a running sender never holds more than queueSize
\* points; while the loop is in its write loop no point leaves the queue, a
\* point enters it only while it has room, and once it has none no Submit
\* call returns and every Submit call made with a valid point leaves its
\* caller blocked at the send.
C25_QueueWithinSize ==
    /\ [](spc = "running" => Len(pts) <= queueSize)
    /\ [][WritePending =>
            \/ pts' = pts
            \/ /\ Len(pts) < queueSize
               /\ \E x \in PointIds : pts' = Append(pts, x)]_vars
    /\ [][(WritePending /\ Len(pts) >= queueSize) =>
            /\ accepted' = accepted
            /\ nsub' # nsub => Cardinality(Blocked') = Cardinality(Blocked) + 1
            /\ Blocked \subseteq Blocked']_vars

C25_Witness ==
    /\ lpc = "sleep" /\ fails = MaxFails
    /\ queueSize = 1 /\ Len(pts) = 1
    /\ Blocked = Producers

\* the series has one entry per chunk of at most maxOids oids, in order,
\* from the first oid to the last of n
WholeSeries(data, n) ==
    /\ Len(data) = (n + maxOids - 1) \div maxOids
    /\ \A k \in DOMAIN data :
          data[k] = <<(k - 1) * maxOids, ChunkEnd((k - 1) * maxOids, n)>>

\* loop l is inside snmpStats
InCycle(l) == IF qs[l].pc = "idle" THEN 0 ELSE 1

\* C26: a loop has sent one series for each of its cycles that ended without
\* an error, each with the values of all its chunks, and none for a cycle
\* that failed; a failed cycle has counted one error (one errorSNMP++) and
\* left its time in cfg.LastError, a cycle without an error has counted none
\* and left cfg.LastError alone.
C26_FailedCycleSendsNothing ==
    \A l \in Loops :
        /\ Len(qs[l].sent) = qs[l].cycles - qs[l].failed - InCycle(l)
        /\ \A k \in DOMAIN qs[l].sent : WholeSeries(qs[l].sent[k].data, qs[l].sent[k].n)
        /\ qs[l].pc = "idle" =>
              /\ qs[l].incs = qs[l].failed
              /\ qs[l].res = "err" => qs[l].LastError = qs[l].now
              /\ qs[l].res = "ok" => qs[l].LastError < qs[l].now

C26_Witness ==
    \E l \in Loops :
        /\ qs[l].pc = "idle" /\ qs[l].res = "err"
        /\ qs[l].n = 121 /\ Len(qs[l].series) = 2
        /\ Len(qs[l].sent) = 1 /\ Len(qs[l].sent[1].data) = 2

\* C27 as claimed: when no loop is inside snmpStats, errorSNMP is the number
\* of poll cycles that failed and snmpReqs the number of cycles begun, of
\* all loops together.
C27_CountersExact ==
    (\A l \in Loops : qs[l].pc = "idle") =>
        /\ errorSNMP = qs[1].failed + qs[2].failed
        /\ snmpReqs = qs[1].cycles + qs[2].cycles

\* the loop receives a value from cDebug in this step
ToggleReceived == dpc = "send" /\ dpc' = "idle"

\* C28 as claimed: when the loop has received the toggle value v the
\* client's logger is set if and only if v is true, and the loop is where it
\* was: in its pause, with the tick (if any) still waiting and no poll made.
C28_ToggleSetsLogging ==
    [][ToggleReceived =>
          /\ clientLogger' = dval
          /\ snmpDebug' = dval
          /\ gpc = "wait" /\ gpc' = "wait"
          /\ cTick' = cTick /\ polled' = polled /\ gcount' = gcount]_vars

\* C29: the loop that receives the flush signal goes to the write loop with
\* its batch and counter as they are, whatever the size of the batch, and
\* the write attempt is its next step; in the write loop batch and counter
\* change only in the step of the successful write, which stores the batch
\* and leaves an empty one and a counter of 0.
C29_FlushWritesAnyBatch ==
    /\ [][FlushReceived =>
            /\ lpc' = "write" /\ att' = <<>>
            /\ bp' = bp /\ count' = count /\ written' = written /\ pts' = pts]_vars
    /\ [][(lpc = "write" /\ last = "flush" /\ lpc' # "write") =>
            (WriteAttempted /\ att'[1].b = bp)]_vars
    /\ [][(WritePending /\ (bp' # bp \/ count' # count)) =>
            /\ lpc = "write" /\ lpc' = "select"
            /\ written' = Append(written, bp) /\ bp' = <<>> /\ count' = 0]_vars

C29_Witness ==
    /\ last = "ok" /\ Len(att) = 2
    /\ att[1].after = "flush" /\ att[1].b = <<>>
    /\ written[Len(written)] = <<>> /\ Len(written) = 2

\* the flush loops that are at their select
AtSelect == {i \in Senders : fl[i] = "select"}

\* the SenderFlush calls whose send has not been received
FlushWaiting == IF fpc = "send" THEN 1 ELSE 0

\* C30: every SenderFlush call whose send has completed was received by one
\* loop, once (the receipts are as many as the completed sends); the send
\* completes only in a step in which exactly one loop, one that was at its
\* select, receives and goes to its write loop while the others stay where
\* they are; and while no loop is at its select (none exists, or each is in
\* its write loop) the call stays blocked at the send.
C30_FlushRendezvous ==
    /\ [](Len(flushed) = nflush - FlushWaiting)
    /\ [][(fpc = "send" /\ fpc' = "idle") =>
            \E i \in AtSelect :
                /\ flushed' = Append(flushed, i)
                /\ fl' = [fl EXCEPT ![i] = "write"]]_vars
    /\ [][(fpc = "send" /\ AtSelect = {}) => (fpc' = "send" /\ flushed' = flushed)]_vars
    /\ [][flushed' # flushed => (fpc = "send" /\ fpc' = "idle")]_vars

C30_Witness ==
    /\ flushed = <<2>> /\ fpc = "idle" /\ nflush = 1
    /\ fl[1] = "select" /\ fl[2] = "sleep" /\ fl[3] = "none"

\* gather g is inside addStats or errFn
InLockedCall(g) ==
    g \in DOMAIN gs /\ gs[g].pc \in {"lock", "store", "report", "errfn"}

\* no addStats, errFn or getStats call is in progress
NoLockedCall ==
    /\ hpc \notin {"lock", "iter", "copy"}
    /\ \A g \in DOMAIN gs : ~InLockedCall(g)

\* C31: a stats mutex m is held either by its gather's errFn, which holds
\* no registry lock, or by getStats inside an accessor, which holds the
\* registry lock already; the registry lock is never taken by a thread that
\* holds a stats mutex; and the calls never wait for each other for ever:
\* while the process lives, again and again no addStats, errFn or getStats
\* call (with its accessor calls) is in progress, so every call that has
\* begun has returned.
C31_NoDeadlock ==
    /\ [](\A g \in DOMAIN gs :
            /\ gs[g].m = 1 => (sLock # g /\ gs[g].pc = "errfn")
            /\ gs[g].m = -1 => (sLock = -1 /\ hpc = "copy"))
    /\ [][(sLock = 0 /\ sLock' # 0) =>
            /\ sLock' \in DOMAIN gs => gs[sLock'].m # 1
            /\ sLock' = -1 => \A g \in DOMAIN gs : gs[g].m # -1]_vars
    /\ []<>(NoLockedCall \/ proc # "up")

\* getStats is inside the accessor of gather 1, holding the registry lock
\* and that gather's mutex, while gather 1 waits for its mutex in errFn and
\* gather 2 waits for the registry lock in addStats
C31_Witness ==
    /\ Len(gs) = 2
    /\ hpc = "copy" /\ sLock = -1
    /\ gs[1].m = -1 /\ gs[1].pc = "report"
    /\ gs[2].pc = "lock"

\* C32 as claimed: from the moment a getStats call can run every gather
\* main has started has registered its accessor, and the map a getStats
\* call has filled holds, for every gather started, an entry made by that
\* gather's accessor.
C32_SnapshotHasAllPollers ==
    /\ hpc # "off" => \A g \in DOMAIN gs : g \in Registered
    /\ (hpc = "iter" /\ todo = {}) =>
          \A g \in DOMAIN gs : \E k \in DOMAIN snap : statsMap[k] = g

\* the gathers started that have not called quit.Done()
Unfinished == {g \in DOMAIN gs : gs[g].pc # "done"}

\* C33: the wait group's counter is the number of gathers started that
\* have not finished (one Add per gather started, one Done per gather whose
\* poller has returned), so it is never negative; main has returned only
\* when every gather started has finished (from its wait, or after a dump
\* or a sample, which start none); and with no gather started main's wait
\* ends at once, web server or not.
C33_MainWaitsForGathers ==
    /\ quit = Cardinality(Unfinished) /\ quit >= 0
    /\ proc = "exit" =>
          /\ Unfinished = {} /\ quit = 0
          /\ mpc \in {"wait", "dump", "sample"}
          /\ mpc # "wait" => gs = <<>>
    /\ (proc = "up" /\ mpc = "wait" /\ gs = <<>>) => ENABLED MainWait

\* main has returned with the web server started, after its two gathers
\* finished, one of them after a poll
C33_Witness ==
    /\ proc = "exit" /\ hpc = "idle"
    /\ Len(gs) = 2 /\ quit = 0
    /\ gs[1].pc = "done" /\ gs[2].pc = "done" /\ gs[2].got = 1

\* Gather has made its first connection and runs its loop
GatherLoops == gpc \in {"poll", "reconnect", "sleep", "wait"}

\* C34: Gather signals its wait group only on leaving its loop, once; a
\* Gather called with a count n > 0 never makes more than n snmpStats calls,
\* has made exactly n when it signals, whatever their outcomes, and, once
\* its loop runs, gets there; a Gather called with count 0 never leaves its
\* loop and never signals.
C34_CountedGatherEnds ==
    /\ [](signals = IF gpc \in {"done", "returned"} THEN 1 ELSE 0)
    /\ [](count0 > 0 => cycles <= count0)
    /\ [](gpc \in {"done", "returned"} => (count0 > 0 /\ cycles = count0 /\ gcount = 0))
    /\ [](count0 = 0 => (gpc \notin {"done", "returned"} /\ signals = 0))
    /\ [][(gpc \in {"done", "returned"}) => (gpc' \in {"done", "returned"})]_vars
    /\ (GatherLoops /\ count0 > 0) ~> (gpc = "done")

\* a Gather called with count 2 has signalled after a failed second cycle
C34_Witness ==
    /\ gpc = "done" /\ count0 = 2 /\ cycles = 2 /\ signals = 1 /\ gerr

\* the influx section a target of this name is to use: its own, else "*",
\* else none ("")
SectionFor(name) ==
    IF name \in SenderNames /\ conf.senders[name] # "none" THEN name
    ELSE IF conf.senders["*"] # "none" THEN "*"
    ELSE ""

\* C35: every gather started was handed the sender of the influx section
\* with its target's name if the configuration has one, else the sender of
\* the section "*", and that sender was constructed; a target with neither
\* has no gather started: main's loop never gets past it, so no gather is
\* started for it or for any target after it and main never comes to its
\* wait; and the process panics for a missing sender only at such a target.
C35_SenderByNameOrStar ==
    /\ \A g \in DOMAIN gs :
          /\ SectionFor(gs[g].name) # ""
          /\ gs[g].send = SectionFor(gs[g].name)
          /\ conf.senders[gs[g].send] = "ok"
    /\ \A i \in DOMAIN conf.agents :
          (SectionFor(conf.agents[i].name) = "" /\ mpc \in {"agents", "spawn", "wait"}) =>
              /\ ai <= i
              /\ ai = i => mpc = "agents"
              /\ Len(gs) <= TotalCalls(SubSeq(conf.agents, 1, i - 1))
    /\ proc = "panic: no sender" =>
          (mpc = "agents" /\ SectionFor(conf.agents[ai].name) = "")

\* the gather of target "a" has the sender of section "a", that of target
\* "b" the sender of section "*"
C35_Witness ==
    /\ Len(gs) = 2 /\ mpc = "wait"
    /\ gs[1].name = "a" /\ gs[1].send = "a"
    /\ gs[2].name = "b" /\ gs[2].send = "*"

\* C1 as claimed: every point whose Submit returned nil is eventually in a
\* successfully written batch.
C1_NoLoss ==
    \A p \in PointIds : (p \in accepted) ~> (p \in Delivered)

\* the same for a sender whose ticker exists (period >= 1)
NoLossWithTicker ==
    \A p \in PointIds : (p \in accepted /\ period >= 1) ~> (p \in Delivered)

\* the flush loop, its ticker, the blocked senders and the store's answers
\* are scheduled fairly; the store fails at most MaxFails times, then a
\* retried write succeeds
SpecLive ==
    /\ Init /\ [][Next]_vars
    /\ WF_vars(LoopTick) /\ WF_vars(LoopPoint) /\ WF_vars(LoopFlush)
    /\ WF_vars(\E p \in Producers : LoopPointDirect(p))
    /\ WF_vars(\E p \in Producers : SubmitUnblock(p))
    /\ WF_vars(CoolDown) /\ WF_vars(WriteOK) /\ WF_vars(TimerFire)

====
